---- MODULE Spec2Model ----
(***************************************************************************)
(* Model of the memory-map client (src/src/App.js and its later          *)
(* revisions): the field-normalisation helpers (toLatLng, getTextFields,  *)
(* getImages, normalizeColor, iconForMemory), the icon cache, the         *)
(* snapshot / render loop of App, the add and edit forms with addMemory   *)
(* and updateMemory, handleDelete, and the comments of a memory.          *)
(*                                                                         *)
(* JavaScript values are records tagged by their typeof-like field t.     *)
(* Text is a sequence of one-character strings, so that trim, regular     *)
(* expression tests, case conversion and parseFloat are computed          *)
(* character by character.  A finite number is the exact decimal          *)
(* m * 10^(-e), kept canonical (e = 0, or m not divisible by 10).         *)
(***************************************************************************)
EXTENDS Integers, Sequences, FiniteSets, TLC

VARIABLES
    op,              \* which helper the harness applies, or the part of App at work
    arg,             \* the helper's input
    out,             \* the helper's result, Pending before the call
    out2,            \* the result of a second call on the same input
    memories,        \* App state `memories`
    loading,         \* App state `loading`
    dirty,           \* a state change has not been rendered yet
    markers,         \* the markers drawn by the last render
    colorIconCache,  \* the module-level Map colour -> icon
    user,            \* App state `user`: the signed-in user or null
    commentStore,    \* the comments sub-collection of one memory
    comments,        \* CommentsSection state `comments`
    commentButtons,  \* the comments drawn with a Delete button
    store,           \* the memories collection: documents by store id
    blobs,           \* the download URLs of the blobs in storage
    created,         \* how many documents, blobs and updates this client wrote
    showForm,        \* App state `showForm`
    addForm,         \* the state of AddMemoryForm
    addCall,         \* the addMemory call in flight, or null
    editingMemory,   \* App state `editingMemory`
    editForm,        \* the state of EditMemoryForm
    editCall,        \* the updateMemory call in flight, or null
    lastCall,        \* the last request sent to the store
    alerted,         \* the text of the last alert, "" before the first
    answered         \* the answer to the last window.confirm: "yes", "no", or ""

viewVars == <<memories, loading, dirty, markers, colorIconCache>>
commentVars == <<commentStore, comments, commentButtons>>
storeVars == <<store, blobs, created>>
addVars == <<showForm, addForm, addCall>>
editVars == <<editingMemory, editForm, editCall>>
logVars == <<lastCall, alerted, answered>>

vars == <<op, arg, out, out2, viewVars, user, commentVars, storeVars,
          addVars, editVars, logVars>>

(* ------------------------------ bounds -------------------------------- *)
\* most fields a generated coordinate map carries
MaxFields == 4
\* longest raw colour text handed to normalizeColor
MaxLen == 7
\* most records in one snapshot
MaxDocs == 2
\* most items in one image list
MaxImages == 3
\* most comments this client posts
MaxComments == 2
\* most documents and blobs this client creates
MaxCreated == 2

(* --------------------------- JavaScript values ------------------------ *)
Undef == [t |-> "undefined"]
Null == [t |-> "null"]
Pending == [t |-> "pending"]
NaN == [t |-> "number", k |-> "nan", m |-> 0, e |-> 0]
PosInf == [t |-> "number", k |-> "inf", m |-> 0, e |-> 0]
NegInf == [t |-> "number", k |-> "ninf", m |-> 0, e |-> 0]
Fin(m, e) == [t |-> "number", k |-> "fin", m |-> m, e |-> e]
Str(s) == [t |-> "string", s |-> s]
Bool(b) == [t |-> "boolean", b |-> b]
Obj(f) == [t |-> "object", f |-> f]
Arr(a) == [t |-> "array", a |-> a]

\* typeof v === "number"
IsNumber(v) == v.t = "number"
\* typeof v === "string"
IsString(v) == v.t = "string"
\* Number.isFinite(v)
IsFinite(v) == v.t = "number" /\ v.k = "fin"
\* v is null or undefined: the values the ?? operator skips
Nullish(v) == v.t \in {"undefined", "null"}
\* ToBoolean(v): what !v, v || w and v && w test
Truthy(v) ==
    CASE v.t \in {"undefined", "null"} -> FALSE
      [] v.t = "boolean" -> v.b
      [] v.t = "number" -> ~(v.k = "nan" \/ (v.k = "fin" /\ v.m = 0))
      [] v.t = "string" -> v.s # <<>>
      [] OTHER -> TRUE

\* obj.name: the own field, undefined when the object has none
Get(obj, name) ==
    IF obj.t = "object" /\ name \in DOMAIN obj.f THEN obj.f[name] ELSE Undef

\* a ?? b ?? c ... : the first value that is neither null nor undefined
RECURSIVE Coalesce(_)
Coalesce(vs) ==
    IF Len(vs) = 1 THEN vs[1]
    ELSE IF ~Nullish(vs[1]) THEN vs[1]
    ELSE Coalesce(Tail(vs))

\* a || b || c ... : the first truthy value, else the last one
RECURSIVE OrChain(_)
OrChain(vs) ==
    IF Len(vs) = 1 THEN vs[1]
    ELSE IF Truthy(vs[1]) THEN vs[1]
    ELSE OrChain(Tail(vs))

(* ------------------------------ parseFloat ---------------------------- *)
WhiteSpace == {" "}
Digits == {"0", "1", "2", "3", "4", "5", "6", "7", "8", "9"}
DigitVal(c) ==
    CASE c = "0" -> 0 [] c = "1" -> 1 [] c = "2" -> 2 [] c = "3" -> 3
      [] c = "4" -> 4 [] c = "5" -> 5 [] c = "6" -> 6 [] c = "7" -> 7
      [] c = "8" -> 8 [] c = "9" -> 9

\* s without its leading white space
RECURSIVE TrimStart(_)
TrimStart(s) ==
    IF s # <<>> /\ Head(s) \in WhiteSpace THEN TrimStart(Tail(s)) ELSE s

\* s without its trailing white space
RECURSIVE TrimEnd(_)
TrimEnd(s) ==
    IF s # <<>> /\ s[Len(s)] \in WhiteSpace
    THEN TrimEnd(SubSeq(s, 1, Len(s) - 1)) ELSE s

\* String.prototype.trim
trim(s) == TrimEnd(TrimStart(s))

\* length of the longest prefix of s made of decimal digits
RECURSIVE DigitRun(_)
DigitRun(s) ==
    IF s # <<>> /\ Head(s) \in Digits THEN 1 + DigitRun(Tail(s)) ELSE 0

\* the natural number written by the digit sequence ds
RECURSIVE DigitsToNat(_)
DigitsToNat(ds) ==
    IF ds = <<>> THEN 0
    ELSE 10 * DigitsToNat(SubSeq(ds, 1, Len(ds) - 1)) + DigitVal(ds[Len(ds)])

\* the canonical form of m * 10^(-e)
RECURSIVE Canon(_, _)
Canon(m, e) ==
    IF e > 0 /\ m % 10 = 0 THEN Canon(m \div 10, e - 1) ELSE Fin(m, e)

InfinityText == <<"I", "n", "f", "i", "n", "i", "t", "y">>
HasPrefix(s, p) == Len(s) >= Len(p) /\ SubSeq(s, 1, Len(p)) = p

\* parseFloat applied to text: leading white space is skipped, then the
\* longest prefix that is a decimal literal ([+-] digits [. digits], or
\* [+-] Infinity) is converted; NaN when there is none.  Exponent parts are
\* not modelled: no text of the model contains e or E after digits.
StrToNumber(s0) ==
    LET s1 == TrimStart(s0)
        signed == s1 # <<>> /\ Head(s1) \in {"+", "-"}
        neg == signed /\ Head(s1) = "-"
        s2 == IF signed THEN Tail(s1) ELSE s1
        ni == DigitRun(s2)
        ip == SubSeq(s2, 1, ni)
        r1 == SubSeq(s2, ni + 1, Len(s2))
        dot == r1 # <<>> /\ Head(r1) = "."
        nf == IF dot THEN DigitRun(Tail(r1)) ELSE 0
        fp == IF dot THEN SubSeq(Tail(r1), 1, nf) ELSE <<>>
        mag == DigitsToNat(ip \o fp)
    IN  IF HasPrefix(s2, InfinityText) THEN (IF neg THEN NegInf ELSE PosInf)
        ELSE IF ni = 0 /\ nf = 0 THEN NaN
        ELSE Canon(IF neg THEN 0 - mag ELSE mag, nf)

\* parseFloat(v) for a value that is not a number: text is parsed; null,
\* undefined, booleans and plain objects print as text with no numeric
\* prefix ("null", "undefined", "true", "[object Object]") and give NaN
parseFloat(v) == IF v.t = "string" THEN StrToNumber(v.s) ELSE NaN

(* ------------------------------- toLatLng ----------------------------- *)
LatLng(lat, lng) == Arr(<<lat, lng>>)

\* the last step of toLatLng: fallback names, numbers or parsed text
FallbackLatLng(coord) ==
    LET rawLat == Coalesce(<<Get(coord, "Latitude"), Get(coord, "LAT"),
                             Get(coord, "lat"), Get(coord, "latitude")>>)
        rawLng == Coalesce(<<Get(coord, "Longitude"), Get(coord, "LONG"),
                             Get(coord, "lng"), Get(coord, "lon"),
                             Get(coord, "longitude")>>)
        lat == IF IsNumber(rawLat) THEN rawLat ELSE parseFloat(rawLat)
        lng == IF IsNumber(rawLng) THEN rawLng ELSE parseFloat(rawLng)
    IN  IF IsFinite(lat) /\ IsFinite(lng) THEN LatLng(lat, lng) ELSE Null

\* toLatLng testing the lat/lng pair before the latitude/longitude pair
toLatLng_LatLngFirst(coord) ==
    IF ~Truthy(coord) THEN Null
    ELSE IF IsNumber(Get(coord, "lat"))
            /\ IsNumber(Coalesce(<<Get(coord, "lng"), Get(coord, "lon")>>))
    THEN LatLng(Get(coord, "lat"), Coalesce(<<Get(coord, "lng"), Get(coord, "lon")>>))
    ELSE IF IsNumber(Get(coord, "latitude")) /\ IsNumber(Get(coord, "longitude"))
    THEN LatLng(Get(coord, "latitude"), Get(coord, "longitude"))
    ELSE FallbackLatLng(coord)

\* toLatLng trying the fallback names before the lat/lng pair
toLatLng_FallbackFirst(coord) ==
    IF ~Truthy(coord) THEN Null
    ELSE IF IsNumber(Get(coord, "latitude")) /\ IsNumber(Get(coord, "longitude"))
    THEN LatLng(Get(coord, "latitude"), Get(coord, "longitude"))
    ELSE IF FallbackLatLng(coord) # Null THEN FallbackLatLng(coord)
    ELSE IF IsNumber(Get(coord, "lat"))
            /\ IsNumber(Coalesce(<<Get(coord, "lng"), Get(coord, "lon")>>))
    THEN LatLng(Get(coord, "lat"), Coalesce(<<Get(coord, "lng"), Get(coord, "lon")>>))
    ELSE Null

\* toLatLng whose longitude chain forgets the name lon
toLatLng_NoLon(coord) ==
    IF ~Truthy(coord) THEN Null
    ELSE IF IsNumber(Get(coord, "latitude")) /\ IsNumber(Get(coord, "longitude"))
    THEN LatLng(Get(coord, "latitude"), Get(coord, "longitude"))
    ELSE IF IsNumber(Get(coord, "lat"))
            /\ IsNumber(Coalesce(<<Get(coord, "lng"), Get(coord, "lon")>>))
    THEN LatLng(Get(coord, "lat"), Coalesce(<<Get(coord, "lng"), Get(coord, "lon")>>))
    ELSE LET rawLat == Coalesce(<<Get(coord, "Latitude"), Get(coord, "LAT"),
                                  Get(coord, "lat"), Get(coord, "latitude")>>)
             rawLng == Coalesce(<<Get(coord, "Longitude"), Get(coord, "LONG"),
                                  Get(coord, "lng"), Get(coord, "longitude")>>)
             lat == IF IsNumber(rawLat) THEN rawLat ELSE parseFloat(rawLat)
             lng == IF IsNumber(rawLng) THEN rawLng ELSE parseFloat(rawLng)
         IN  IF IsFinite(lat) /\ IsFinite(lng) THEN LatLng(lat, lng) ELSE Null

\* toLatLng accepting a pair as soon as one component is finite
toLatLng_EitherFinite(coord) ==
    IF ~Truthy(coord) THEN Null
    ELSE IF IsNumber(Get(coord, "latitude")) /\ IsNumber(Get(coord, "longitude"))
    THEN LatLng(Get(coord, "latitude"), Get(coord, "longitude"))
    ELSE IF IsNumber(Get(coord, "lat"))
            /\ IsNumber(Coalesce(<<Get(coord, "lng"), Get(coord, "lon")>>))
    THEN LatLng(Get(coord, "lat"), Coalesce(<<Get(coord, "lng"), Get(coord, "lon")>>))
    ELSE LET rawLat == Coalesce(<<Get(coord, "Latitude"), Get(coord, "LAT"),
                                  Get(coord, "lat"), Get(coord, "latitude")>>)
             rawLng == Coalesce(<<Get(coord, "Longitude"), Get(coord, "LONG"),
                                  Get(coord, "lng"), Get(coord, "lon"),
                                  Get(coord, "longitude")>>)
             lat == IF IsNumber(rawLat) THEN rawLat ELSE parseFloat(rawLat)
             lng == IF IsNumber(rawLng) THEN rawLng ELSE parseFloat(rawLng)
         IN  IF IsFinite(lat) \/ IsFinite(lng) THEN LatLng(lat, lng) ELSE Null

toLatLng(coord) ==
    IF ~Truthy(coord) THEN Null
    ELSE IF IsNumber(Get(coord, "latitude")) /\ IsNumber(Get(coord, "longitude"))
    THEN LatLng(Get(coord, "latitude"), Get(coord, "longitude"))
    ELSE IF IsNumber(Get(coord, "lat"))
            /\ IsNumber(Coalesce(<<Get(coord, "lng"), Get(coord, "lon")>>))
    THEN LatLng(Get(coord, "lat"), Coalesce(<<Get(coord, "lng"), Get(coord, "lon")>>))
    ELSE FallbackLatLng(coord)

(* ----------------------------- normalizeColor -------------------------- *)
HexDigits ==
    Digits \cup {"a", "b", "c", "d", "e", "f", "A", "B", "C", "D", "E", "F"}

\* /^#[0-9a-fA-F]{n}$/.test(s)
TestHex(s, n) ==
    /\ Len(s) = n + 1
    /\ s[1] = "#"
    /\ \A i \in 2..(n + 1) : s[i] \in HexDigits

\* normalizeColor writing #rgb out as #rgbrgb
normalizeColor_Repeat(raw) ==
    IF ~IsString(raw) THEN Null
    ELSE LET s == trim(raw.s)
         IN  IF TestHex(s, 6) THEN Str(s)
             ELSE IF TestHex(s, 3)
             THEN Str(<<"#", s[2], s[3], s[4], s[2], s[3], s[4]>>)
             ELSE Null

normalizeColor(raw) ==
    IF ~IsString(raw) THEN Null
    ELSE LET s == trim(raw.s)
         IN  IF TestHex(s, 6) THEN Str(s)
             ELSE IF TestHex(s, 3)
             THEN Str(<<"#", s[2], s[2], s[3], s[3], s[4], s[4]>>)
             ELSE Null

(* ------------------------------ iconForMemory -------------------------- *)
UpperCase == <<"A", "B", "C", "D", "E", "F", "G", "H", "I", "J", "K", "L", "M", "N", "O", "P", "Q", "R", "S", "T", "U", "V", "W", "X", "Y", "Z">>
LowerCase == <<"a", "b", "c", "d", "e", "f", "g", "h", "i", "j", "k", "l", "m", "n", "o", "p", "q", "r", "s", "t", "u", "v", "w", "x", "y", "z">>

\* String.prototype.toLowerCase
toLowerCase(s) ==
    [i \in 1..Len(s) |->
        IF \E j \in 1..Len(UpperCase) : UpperCase[j] = s[i]
        THEN LowerCase[CHOOSE j \in 1..Len(UpperCase) : UpperCase[j] = s[i]]
        ELSE s[i]]

\* v.toString() for the truthy values a category field holds: text is
\* itself, true prints as "true", a plain object as "[object Object]"
\* (numbers are not among the category values of the model)
toString(v) ==
    CASE v.t = "string" -> v.s
      [] v.t = "boolean" -> IF v.b THEN <<"t", "r", "u", "e">> ELSE <<"f", "a", "l", "s", "e">>
      [] OTHER -> <<"[", "o", "b", "j", "e", "c", "t", " ", "O", "b", "j", "e", "c", "t", "]">>

\* the own properties of CATEGORY_COLORS
CATEGORY_COLORS ==
    [holiday |-> Str(<<"#", "f", "5", "9", "e", "0", "b">>),
     datenight |-> Str(<<"#", "e", "c", "4", "8", "9", "9">>),
     friends |-> Str(<<"#", "2", "2", "c", "5", "5", "e">>),
     work |-> Str(<<"#", "3", "b", "8", "2", "f", "6">>),
     other |-> Str(<<"#", "6", "b", "7", "2", "8", "0">>),
     default |-> Str(<<"#", "3", "b", "8", "2", "f", "6">>)]

\* the own property names of CATEGORY_COLORS, as text
CategoryKeys ==
    [holiday |-> <<"h", "o", "l", "i", "d", "a", "y">>,
     datenight |-> <<"d", "a", "t", "e", "n", "i", "g", "h", "t">>,
     friends |-> <<"f", "r", "i", "e", "n", "d", "s">>,
     work |-> <<"w", "o", "r", "k">>,
     other |-> <<"o", "t", "h", "e", "r">>,
     default |-> <<"d", "e", "f", "a", "u", "l", "t">>]

\* property names every object literal inherits from Object.prototype
ObjectPrototypeKeys ==
    {<<"c", "o", "n", "s", "t", "r", "u", "c", "t", "o", "r">>,
     <<"t", "o", "S", "t", "r", "i", "n", "g">>,
     <<"v", "a", "l", "u", "e", "O", "f">>,
     <<"_", "_", "p", "r", "o", "t", "o", "_", "_">>}

\* CATEGORY_COLORS[key]: an own colour, else what the prototype chain holds
\* under that name (a function or object, never text), else undefined
CategoryLookup(key) ==
    IF \E n \in DOMAIN CategoryKeys : CategoryKeys[n] = key
    THEN CATEGORY_COLORS[CHOOSE n \in DOMAIN CategoryKeys : CategoryKeys[n] = key]
    ELSE IF key \in ObjectPrototypeKeys THEN [t |-> "function", name |-> key]
    ELSE Undef

\* the colour key iconForMemory hands to iconFromColor
iconForMemory(memory) ==
    LET explicit == normalizeColor(OrChain(<<Get(memory, "color"),
                                            Get(memory, "pinColor"),
                                            Get(memory, "colour")>>))
        category == OrChain(<<Get(memory, "category"), Str(<<>>)>>)
        fallback == OrChain(<<CategoryLookup(toLowerCase(trim(toString(category)))),
                              CATEGORY_COLORS.default>>)
    IN  IF Truthy(explicit) THEN explicit ELSE fallback

(* ------------------------------ getTextFields -------------------------- *)
UntitledLocation == Str(<<"U", "n", "t", "i", "t", "l", "e", "d", " ", "l", "o", "c", "a", "t", "i", "o", "n">>)

\* getTextFields with || in place of ??
getTextFields_Or(memory) ==
    Obj([title |-> OrChain(<<Get(memory, "title"), Get(memory, "name"),
                             Get(memory, "Title"), UntitledLocation>>),
         description |-> OrChain(<<Get(memory, "description"), Get(memory, "desc"),
                                   Get(memory, "Details"), Get(memory, "text"),
                                   Get(memory, "Description"), Str(<<>>)>>)])

getTextFields(memory) ==
    Obj([title |-> Coalesce(<<Get(memory, "title"), Get(memory, "name"),
                              Get(memory, "Title"), UntitledLocation>>),
         description |-> Coalesce(<<Get(memory, "description"), Get(memory, "desc"),
                                    Get(memory, "Details"), Get(memory, "text"),
                                    Get(memory, "Description"), Str(<<>>)>>)])

(* ----------------------- coordinate inputs (bounded) ------------------ *)
CoordFields ==
    {"latitude", "longitude", "lat", "lng", "lon",
     "Latitude", "LAT", "Longitude", "LONG"}
LatNames == {"latitude", "lat", "Latitude", "LAT"}
LngNames == {"longitude", "lng", "lon", "Longitude", "LONG"}

\* the kinds of value a generated field holds
ValueKinds == {"num", "nan", "text", "junk", "null"}

\* a finite number that tells the fields apart
FieldNum(f) ==
    CASE f = "latitude" -> Fin(10, 0) [] f = "longitude" -> Fin(11, 0)
      [] f = "lat" -> Fin(20, 0) [] f = "lng" -> Fin(21, 0)
      [] f = "lon" -> Fin(22, 0) [] f = "Latitude" -> Fin(30, 0)
      [] f = "Longitude" -> Fin(31, 0) [] f = "LAT" -> Fin(40, 0)
      [] f = "LONG" -> Fin(41, 0)

\* numeric-parseable text that tells the fields apart
FieldText(f) ==
    CASE f = "latitude" -> Str(<<"1", "0", ".", "5">>)
      [] f = "longitude" -> Str(<<"1", "1", ".", "5">>)
      [] f = "lat" -> Str(<<"4", "8", ".", "8">>)
      [] f = "lng" -> Str(<<"-", "2", "1", ".", "5", "0">>)
      [] f = "lon" -> Str(<<"2", ".", "3">>)
      [] f = "Latitude" -> Str(<<" ", "3", "0", ".", "2", "5">>)
      [] f = "Longitude" -> Str(<<"3", "1", "a">>)
      [] f = "LAT" -> Str(<<"+", "4", "0">>)
      [] f = "LONG" -> Str(<<".", "5">>)

\* text with no numeric prefix
JunkText(f) ==
    IF f \in LatNames THEN Str(<<"a", "b", "c">>)
    ELSE Str(<<"I", "n", "f", "i", "n", "i", "t", "y">>)

FieldValue(f, kind) ==
    CASE kind = "num" -> FieldNum(f)
      [] kind = "nan" -> (IF f \in LatNames THEN NaN ELSE PosInf)
      [] kind = "text" -> FieldText(f)
      [] kind = "junk" -> JunkText(f)
      [] kind = "null" -> Null

\* the sets of at most MaxFields coordinate fields a generated map carries
FieldSets == {T \in SUBSET CoordFields : Cardinality(T) <= MaxFields}

\* the key-value map with the fields S, each holding the value of its kind
CoordMap(S, g) == Obj([f \in S |-> FieldValue(f, g[f])])

(* ------------------------- the application state ---------------------- *)
AppIdle ==
    /\ out2 = Pending
    /\ memories = <<>>
    /\ loading = TRUE
    /\ dirty = FALSE
    /\ markers = <<>>
    /\ colorIconCache = <<>>
    /\ user = Null
    /\ commentStore = <<>>
    /\ comments = <<>>
    /\ commentButtons = {}
    /\ store = <<>>
    /\ blobs = {}
    /\ created = 0
    /\ showForm = FALSE
    /\ addForm = Null
    /\ addCall = Null
    /\ editingMemory = Null
    /\ editForm = Null
    /\ editCall = Null
    /\ lastCall = Null
    /\ alerted = ""
    /\ answered = ""

appVars == <<out2, viewVars, user, commentVars, storeVars, addVars, editVars, logVars>>

(* ----------------- specification: toLatLng on every input ------------- *)
InitToLatLng ==
    /\ op = "toLatLng"
    /\ \/ arg \in {Null, Undef}
       \/ \E S \in FieldSets : \E g \in [S -> ValueKinds] : arg = CoordMap(S, g)
    /\ out = Pending
    /\ AppIdle

CallToLatLng ==
    /\ op = "toLatLng"
    /\ out = Pending
    /\ out' = toLatLng(arg)
    /\ UNCHANGED <<op, arg, appVars>>

NextToLatLng == CallToLatLng

SpecToLatLng == InitToLatLng /\ [][NextToLatLng]_vars

Returned == out # Pending

\* C1: toLatLng returns null or a pair of two finite numbers
C1_NullOrFinitePair ==
    (op = "toLatLng" /\ Returned) =>
        \/ out = Null
        \/ out.t = "array" /\ IsFinite(out.a[1]) /\ IsFinite(out.a[2])

\* C2: when latitude and longitude are both numbers, the result is exactly
\* that pair, whatever the other coordinate fields hold
C2_LatitudeLongitudeUnchanged ==
    (op = "toLatLng" /\ Returned
       /\ IsNumber(Get(arg, "latitude")) /\ IsNumber(Get(arg, "longitude"))) =>
        out = LatLng(Get(arg, "latitude"), Get(arg, "longitude"))

\* C2 witness: a numeric latitude/longitude pair next to a numeric lat/lng pair
C2_Witness ==
    /\ op = "toLatLng" /\ Returned
    /\ Get(arg, "latitude") = Fin(10, 0) /\ Get(arg, "longitude") = Fin(11, 0)
    /\ Get(arg, "lat") = Fin(20, 0) /\ Get(arg, "lng") = Fin(21, 0)
    /\ out = LatLng(Fin(10, 0), Fin(11, 0))

\* C3 as stated: both components of a result come from the names of one
\* step: latitude/longitude numbers, or lat with lng or lon numbers, or the
\* fallback names Latitude|LAT and Longitude|LONG as number or parsed text
C3_SameStepAsStated ==
    (op = "toLatLng" /\ Returned /\ out # Null) =>
        LET NumOf(v) == IF IsNumber(v) THEN v ELSE parseFloat(v)
        IN  \/ /\ IsNumber(Get(arg, "latitude")) /\ IsNumber(Get(arg, "longitude"))
               /\ out = LatLng(Get(arg, "latitude"), Get(arg, "longitude"))
            \/ /\ IsNumber(Get(arg, "lat"))
               /\ \E n \in {"lng", "lon"} :
                     IsNumber(Get(arg, n)) /\ out = LatLng(Get(arg, "lat"), Get(arg, n))
            \/ \E a \in {"Latitude", "LAT"} : \E b \in {"Longitude", "LONG"} :
                  out = LatLng(NumOf(Get(arg, a)), NumOf(Get(arg, b)))

\* C3 amended: step 1 (numeric latitude/longitude) wins over step 2 (numeric
\* lat with a numeric first-present of lng, lon), which wins over step 3;
\* step 3 takes the first present of Latitude, LAT, lat, latitude and of
\* Longitude, LONG, lng, lon, longitude, each as a number or parsed text
C3_FirstMatchWins ==
    (op = "toLatLng" /\ Returned /\ arg.t = "object") =>
        LET NumOf(v) == IF IsNumber(v) THEN v ELSE parseFloat(v)
            FirstPresent(names) ==
                LET here == {i \in 1..Len(names) : ~Nullish(Get(arg, names[i]))}
                IN  IF here = {} THEN Undef
                    ELSE Get(arg, names[CHOOSE i \in here : \A j \in here : i <= j])
            step1 == IsNumber(Get(arg, "latitude")) /\ IsNumber(Get(arg, "longitude"))
            lngOrLon == FirstPresent(<<"lng", "lon">>)
            step2 == IsNumber(Get(arg, "lat")) /\ IsNumber(lngOrLon)
            lat3 == NumOf(FirstPresent(<<"Latitude", "LAT", "lat", "latitude">>))
            lng3 == NumOf(FirstPresent(<<"Longitude", "LONG", "lng", "lon", "longitude">>))
        IN  /\ step1 => out = LatLng(Get(arg, "latitude"), Get(arg, "longitude"))
            /\ (~step1 /\ step2) => out = LatLng(Get(arg, "lat"), lngOrLon)
            /\ (~step1 /\ ~step2 /\ IsFinite(lat3) /\ IsFinite(lng3)) =>
                   out = LatLng(lat3, lng3)
            /\ (~step1 /\ ~step2 /\ ~(IsFinite(lat3) /\ IsFinite(lng3))) => out = Null

\* C3 witness: a numeric lat/lng pair next to a different parseable
\* Latitude/Longitude pair resolves to the lat/lng pair
C3_Witness ==
    /\ op = "toLatLng" /\ Returned
    /\ Get(arg, "lat") = Fin(20, 0) /\ Get(arg, "lng") = Fin(21, 0)
    /\ Get(arg, "Latitude") = FieldText("Latitude")
    /\ Get(arg, "Longitude") = FieldText("Longitude")
    /\ out = LatLng(Fin(20, 0), Fin(21, 0))

\* C4: when only lat and lon exist and both are numeric-parseable text, the
\* result is the pair of their parsed decimal values; "48.8", "2.3" gives
\* [48.8, 2.3]
C4_LatLonText ==
    (op = "toLatLng" /\ Returned /\ arg.t = "object"
       /\ DOMAIN arg.f = {"lat", "lon"}
       /\ IsString(arg.f["lat"]) /\ IsFinite(parseFloat(arg.f["lat"]))
       /\ IsString(arg.f["lon"]) /\ IsFinite(parseFloat(arg.f["lon"]))) =>
        /\ out = LatLng(parseFloat(arg.f["lat"]), parseFloat(arg.f["lon"]))
        /\ (arg.f["lat"] = Str(<<"4", "8", ".", "8">>)
              /\ arg.f["lon"] = Str(<<"2", ".", "3">>)) =>
               out = LatLng(Fin(488, 1), Fin(23, 1))

\* C4 witness: {lat: "48.8", lon: "2.3"} has been resolved to [48.8, 2.3]
C4_Witness ==
    /\ op = "toLatLng" /\ Returned
    /\ arg = Obj([f \in {"lat", "lon"} |->
                    IF f = "lat" THEN Str(<<"4", "8", ".", "8">>)
                    ELSE Str(<<"2", ".", "3">>)])
    /\ out = LatLng(Fin(488, 1), Fin(23, 1))

ColorAlphabet == {"#", "a", "F", "g", " "}

\* values that are not text
NonText == {Undef, Null, Fin(0, 0), Fin(5, 0), Bool(TRUE), Obj(<<>>)}

InitNormalizeColor ==
    /\ op = "normalizeColor"
    /\ \/ arg \in NonText
       \/ \E n \in 0..MaxLen : \E s \in [1..n -> ColorAlphabet] : arg = Str(s)
    /\ out = Pending
    /\ AppIdle

CallNormalizeColor ==
    /\ op = "normalizeColor"
    /\ out = Pending
    /\ out' = normalizeColor(arg)
    /\ UNCHANGED <<op, arg, appVars>>

NextNormalizeColor == CallNormalizeColor

SpecNormalizeColor == InitNormalizeColor /\ [][NextNormalizeColor]_vars

\* C9 as stated: '#' + 3 hex digits is expanded by doubling, '#' + 6 hex
\* digits is returned unchanged, every other value gives null
C9_AsStated ==
    (op = "normalizeColor" /\ Returned) =>
        LET Hex(s, n) == Len(s) = n + 1 /\ s[1] = "#"
                         /\ \A i \in 2..Len(s) : s[i] \in HexDigits
        IN  IF IsString(arg) /\ Hex(arg.s, 3)
            THEN out = Str([i \in 1..7 |-> IF i = 1 THEN "#" ELSE arg.s[(i \div 2) + 1]])
            ELSE IF IsString(arg) /\ Hex(arg.s, 6) THEN out = arg
            ELSE out = Null

\* C9 amended: the result is null or '#' + 6 hex digits; text that, once its
\* surrounding white space is removed, is '#' + 3 hex digits is expanded by
\* doubling each digit; text that is then '#' + 6 hex digits is returned
\* without the white space; every other value gives null; normalizeColor of
\* a non-null result is that result
C9_TrimmedHex ==
    (op = "normalizeColor" /\ Returned) =>
        LET Hex(s, n) == Len(s) = n + 1 /\ s[1] = "#"
                         /\ \A i \in 2..Len(s) : s[i] \in HexDigits
            Inner(s) ==
                LET ink == {i \in 1..Len(s) : s[i] \notin WhiteSpace}
                IN  IF ink = {} THEN <<>>
                    ELSE SubSeq(s, CHOOSE i \in ink : \A j \in ink : i <= j,
                                   CHOOSE i \in ink : \A j \in ink : i >= j)
        IN  /\ out = Null \/ (IsString(out) /\ Hex(out.s, 6))
            /\ IF IsString(arg) /\ Hex(Inner(arg.s), 3)
               THEN out = Str([i \in 1..7 |->
                                 IF i = 1 THEN "#" ELSE Inner(arg.s)[(i \div 2) + 1]])
               ELSE IF IsString(arg) /\ Hex(Inner(arg.s), 6)
               THEN out = Str(Inner(arg.s))
               ELSE out = Null
            /\ out # Null => normalizeColor(out) = out

\* C9 witness: " #aFg"-like padded text: " #aFa " has been expanded to "#aaFFaa"
C9_Witness ==
    /\ op = "normalizeColor" /\ Returned
    /\ arg = Str(<<" ", "#", "a", "F", "a", " ">>)
    /\ out = Str(<<"#", "a", "a", "F", "F", "a", "a">>)

(* -------------- specification: iconForMemory on every record ---------- *)
\* what a colour-like field (color, pinColor, colour) of a record holds
ColorFieldValues ==
    {Undef, Null, Str(<<>>), Fin(5, 0),
     Str(<<"#", "f", "f", "0", "0", "0", "0">>), Str(<<" ", "#", "0", "F", "0">>), Str(<<"r", "e", "d">>)}

\* what the category field of a record holds
CategoryValues ==
    {Undef, Null, Str(<<>>), Bool(TRUE),
     Str(<<" ", "W", "o", "r", "k", " ">>), Str(<<"w", "o", "r", "k">>), Str(<<"H", "O", "L", "I", "D", "A", "Y">>),
     Str(<<"D", "a", "t", "e", "N", "i", "g", "h", "t">>), Str(<<"f", "r", "i", "e", "n", "d", "s">>), Str(<<"O", "t", "h", "e", "r">>),
     Str(<<"d", "e", "f", "a", "u", "l", "t">>), Str(<<"p", "i", "c", "n", "i", "c">>), Str(<<"c", "o", "n", "s", "t", "r", "u", "c", "t", "o", "r">>)}

\* a record with exactly the fields that are not undefined
Record(fields) ==
    Obj([n \in {m \in DOMAIN fields : fields[m] # Undef} |-> fields[n]])

InitIconForMemory ==
    /\ op = "iconForMemory"
    /\ \E c1 \in ColorFieldValues, c2 \in ColorFieldValues, c3 \in ColorFieldValues,
          cat \in CategoryValues :
          arg = Record([color |-> c1, pinColor |-> c2, colour |-> c3, category |-> cat])
    /\ out = Pending
    /\ AppIdle

CallIconForMemory ==
    /\ op = "iconForMemory"
    /\ out = Pending
    /\ out' = iconForMemory(arg)
    /\ UNCHANGED <<op, arg, appVars>>

NextIconForMemory == CallIconForMemory

SpecIconForMemory == InitIconForMemory /\ [][NextIconForMemory]_vars

\* C7: when one of color, pinColor, colour is present and normalizes to
\* '#' + 6 hex digits, the marker style is such a normalized explicit
\* colour, whatever the category and the other colour-like fields hold
C7_ExplicitColourWins ==
    (op = "iconForMemory" /\ Returned) =>
        LET explicit == {normalizeColor(Get(arg, f)) : f \in {"color", "pinColor", "colour"}}
                        \ {Null}
        IN  explicit # {} => out \in explicit

\* C8: when no explicit colour normalizes, the style is the CATEGORY_COLORS
\* entry of the trimmed, lower-cased category for holiday, datenight,
\* friends, work, other, and the default colour #3b82f6 for every other,
\* absent or empty category
C8_CategoryFallback ==
    (op = "iconForMemory" /\ Returned
       /\ \A f \in {"color", "pinColor", "colour"} : normalizeColor(Get(arg, f)) = Null) =>
        LET cat == Get(arg, "category")
            key == IF IsString(cat) THEN toLowerCase(trim(cat.s)) ELSE <<>>
        IN  IF key = <<"h", "o", "l", "i", "d", "a", "y">> THEN out = Str(<<"#", "f", "5", "9", "e", "0", "b">>)
            ELSE IF key = <<"d", "a", "t", "e", "n", "i", "g", "h", "t">> THEN out = Str(<<"#", "e", "c", "4", "8", "9", "9">>)
            ELSE IF key = <<"f", "r", "i", "e", "n", "d", "s">> THEN out = Str(<<"#", "2", "2", "c", "5", "5", "e">>)
            ELSE IF key = <<"w", "o", "r", "k">> THEN out = Str(<<"#", "3", "b", "8", "2", "f", "6">>)
            ELSE IF key = <<"o", "t", "h", "e", "r">> THEN out = Str(<<"#", "6", "b", "7", "2", "8", "0">>)
            ELSE out = Str(<<"#", "3", "b", "8", "2", "f", "6">>)

\* C21: for every record the style key iconForMemory resolves is a colour
\* string: '#' + 6 hex digits from an explicit colour field, or one of the
\* colour values of CATEGORY_COLORS, also when the category text is the
\* name of a property every object inherits ("constructor", "__proto__")
C21_StyleKeyIsColour ==
    (op = "iconForMemory" /\ Returned) =>
        /\ IsString(out)
        /\ \/ TestHex(out.s, 6)
              /\ \E f \in {"color", "pinColor", "colour"} : out = normalizeColor(Get(arg, f))
           \/ \E n \in DOMAIN CATEGORY_COLORS : out = CATEGORY_COLORS[n]

(* -------------- specification: getTextFields on every record ---------- *)
\* what a title-like or description-like field holds: absent, null, empty
\* text, or text that names the field
TextFieldValues(name) == {Undef, Null, Str(<<>>), Str(<<name>>)}

InitGetTextFields ==
    /\ op = "getTextFields"
    /\ \E t1 \in TextFieldValues("title") \cup {Fin(0, 0)},
          t2 \in TextFieldValues("name") \cup {Str(<<"P", "i", "c", "n", "i", "c">>)},
          t3 \in TextFieldValues("Title"),
          d1 \in TextFieldValues("description"),
          d2 \in TextFieldValues("desc"),
          d3 \in TextFieldValues("Details"),
          d4 \in TextFieldValues("text"),
          d5 \in TextFieldValues("Description") :
          arg = Record([title |-> t1, name |-> t2, Title |-> t3,
                        description |-> d1, desc |-> d2, Details |-> d3,
                        text |-> d4, Description |-> d5])
    /\ out = Pending
    /\ AppIdle

CallGetTextFields ==
    /\ op = "getTextFields"
    /\ out = Pending
    /\ out' = getTextFields(arg)
    /\ UNCHANGED <<op, arg, appVars>>

NextGetTextFields == CallGetTextFields

SpecGetTextFields == InitGetTextFields /\ [][NextGetTextFields]_vars

\* C10: the title is the first value that is neither null nor undefined
\* among title, name, Title, else "Untitled location"; the description is
\* the first such value among description, desc, Details, text,
\* Description, else the empty text
C10_FirstPresentText ==
    (op = "getTextFields" /\ Returned) =>
        LET FirstPresent(names, dflt) ==
                LET here == {i \in 1..Len(names) :
                               Get(arg, names[i]) \notin {Null, Undef}}
                IN  IF here = {} THEN dflt
                    ELSE Get(arg, names[CHOOSE i \in here : \A j \in here : i <= j])
        IN  /\ out.f.title = FirstPresent(<<"title", "name", "Title">>, Str(<<"U", "n", "t", "i", "t", "l", "e", "d", " ", "l", "o", "c", "a", "t", "i", "o", "n">>))
            /\ out.f.description =
                  FirstPresent(<<"description", "desc", "Details", "text", "Description">>,
                               Str(<<>>))

\* C10 witness: a record whose empty title precedes a name resolves to the
\* empty title, and its null description to the text of desc
C10_Witness ==
    /\ op = "getTextFields" /\ Returned
    /\ Get(arg, "title") = Str(<<>>) /\ Get(arg, "name") = Str(<<"P", "i", "c", "n", "i", "c">>)
    /\ Get(arg, "description") = Null /\ Get(arg, "desc") = Str(<<"desc">>)
    /\ out.f.title = Str(<<>>) /\ out.f.description = Str(<<"desc">>)

(* ------------------------------- getImages ---------------------------- *)
\* typeof v === "object" for a value that is not null: maps and arrays
IsObjectType(v) == v.t \in {"object", "array"}

\* the entry { src, caption } of the returned list
ImageOf(src, caption) == Obj([src |-> src, caption |-> caption])

\* the callback of raw.map: an item of the array to its entry, or null
ImageEntry(item) ==
    IF IsString(item) THEN ImageOf(item, Str(<<>>))
    ELSE IF Truthy(item) /\ IsObjectType(item)
    THEN LET src == Coalesce(<<Get(item, "url"), Get(item, "src"),
                               Get(item, "downloadURL"), Str(<<>>)>>)
             caption == Coalesce(<<Get(item, "caption"), Get(item, "alt"), Str(<<>>)>>)
         IN  IF Truthy(src) THEN ImageOf(src, caption) ELSE Null
    ELSE Null

\* raw.map(...) building the list from the back
RECURSIVE MapEntries_Prepend(_)
MapEntries_Prepend(items) ==
    IF items = <<>> THEN <<>>
    ELSE MapEntries_Prepend(Tail(items)) \o <<ImageEntry(Head(items))>>

\* raw.map(...): the entries of the items, in the order of the items
RECURSIVE MapEntries(_)
MapEntries(items) ==
    IF items = <<>> THEN <<>>
    ELSE <<ImageEntry(Head(items))>> \o MapEntries(Tail(items))

\* the field chain read with image before images
RawImages_ImageFirst(memory) ==
    Coalesce(<<Get(memory, "image"), Get(memory, "images"), Get(memory, "photos"),
               Get(memory, "photo"), Get(memory, "imageUrl"),
               Get(memory, "imageURL"), Get(memory, "Image"), Arr(<<>>)>>)

\* memory.images ?? memory.photos ?? ... ?? memory.Image ?? []
RawImages(memory) ==
    Coalesce(<<Get(memory, "images"), Get(memory, "photos"), Get(memory, "image"),
               Get(memory, "photo"), Get(memory, "imageUrl"),
               Get(memory, "imageURL"), Get(memory, "Image"), Arr(<<>>)>>)

getImages(memory) ==
    LET raw == RawImages(memory)
    IN  IF raw.t = "array"
        THEN Arr(SelectSeq(MapEntries(raw.a), Truthy))
        ELSE IF IsString(raw) THEN Arr(<<ImageOf(raw, Str(<<>>))>>)
        ELSE IF Truthy(raw) /\ IsObjectType(raw)
        THEN LET src == Coalesce(<<Get(raw, "url"), Get(raw, "src"),
                                   Get(raw, "downloadURL"), Str(<<>>)>>)
                 caption == Coalesce(<<Get(raw, "caption"), Get(raw, "alt"), Str(<<>>)>>)
             IN  IF Truthy(src) THEN Arr(<<ImageOf(src, caption)>>) ELSE Arr(<<>>)
        ELSE Arr(<<>>)

(* ---------------- specification: getImages on every record ------------ *)
ImageFields == <<"images", "photos", "image", "photo", "imageUrl", "imageURL", "Image">>

\* what an image field, or an item of an image list, can hold
ImageItems ==
    {Str(<<"a">>), Str(<<>>),
     Obj([url |-> Str(<<"b">>), caption |-> Str(<<"S">>)]),
     Obj([src |-> Str(<<"c">>), alt |-> Str(<<"T">>)]),
     Obj([downloadURL |-> Str(<<"d">>)]),
     Obj([caption |-> Str(<<"S">>)]),
     Obj([url |-> Str(<<>>), src |-> Str(<<"c">>)]),
     Obj([url |-> Null, src |-> Str(<<"c">>), caption |-> Null, alt |-> Str(<<"T">>)]),
     Null, Fin(5, 0), Arr(<<Str(<<"a">>)>>)}

\* what a second image field of the same record holds
OtherImageValues == {Undef, Null, Str(<<"z">>), Arr(<<>>)}

\* the record with field f holding v and field g (when another) holding w
ImageRecord(f, v, g, w) ==
    Record([n \in {ImageFields[f], ImageFields[g]} |->
              IF n = ImageFields[f] THEN v ELSE w])

InitGetImages ==
    /\ op = "getImages"
    /\ \E f \in 1..Len(ImageFields), g \in 1..Len(ImageFields), w \in OtherImageValues :
          \/ \E v \in ImageItems \cup {Undef, Bool(TRUE)} : arg = ImageRecord(f, v, g, w)
          \/ /\ g = (f % Len(ImageFields)) + 1
             /\ \E n \in 0..MaxImages : \E a \in [1..n -> ImageItems] :
                   arg = ImageRecord(f, Arr(a), g, w)
    /\ out = Pending
    /\ AppIdle

CallGetImages ==
    /\ op = "getImages"
    /\ out = Pending
    /\ out' = getImages(arg)
    /\ UNCHANGED <<op, arg, appVars>>

NextGetImages == CallGetImages

SpecGetImages == InitGetImages /\ [][NextGetImages]_vars

\* C11: getImages takes the first field that is neither absent nor null
\* among images, photos, image, photo, imageUrl, imageURL, Image; a
\* sequence is mapped entry by entry, a single text t gives
\* [{src: t, caption: ""}], a single structured entry gives what the
\* one-element sequence of it gives (src from url, src, downloadURL;
\* caption from caption, alt), anything else or no field gives []
C11_FirstFieldByShape ==
    (op = "getImages" /\ Returned) =>
        LET here == {i \in 1..Len(ImageFields) :
                        Get(arg, ImageFields[i]) \notin {Null, Undef}}
            raw == Get(arg, ImageFields[CHOOSE i \in here : \A j \in here : i <= j])
            First(names, e) ==
                LET there == {i \in 1..Len(names) : Get(e, names[i]) \notin {Null, Undef}}
                IN  IF there = {} THEN Str(<<>>)
                    ELSE Get(e, names[CHOOSE i \in there : \A j \in there : i <= j])
            OfEntry(e) ==
                IF e.t = "string" THEN <<[src |-> e, caption |-> Str(<<>>)]>>
                ELSE IF e.t \in {"object", "array"}
                        /\ First(<<"url", "src", "downloadURL">>, e) # Str(<<>>)
                THEN <<[src |-> First(<<"url", "src", "downloadURL">>, e),
                        caption |-> First(<<"caption", "alt">>, e)]>>
                ELSE <<>>
            RECURSIVE OfAll(_)
            OfAll(es) == IF es = <<>> THEN <<>> ELSE OfEntry(Head(es)) \o OfAll(Tail(es))
            got == [i \in 1..Len(out.a) |-> out.a[i].f]
        IN  /\ out.t = "array"
            /\ \A i \in 1..Len(out.a) : out.a[i].t = "object"
            /\ IF here = {} THEN got = <<>>
               ELSE IF raw.t = "array" THEN got = OfAll(raw.a)
               ELSE IF raw.t = "string" THEN got = <<[src |-> raw, caption |-> Str(<<>>)]>>
               ELSE IF raw.t = "object" THEN got = OfEntry(raw)
               ELSE got = <<>>

\* C11 witness: imageUrl holds a structured entry with a null url, next
\* to a null images field, and the entry was taken from src and alt
C11_Witness ==
    /\ op = "getImages" /\ Returned
    /\ Get(arg, "images") = Null
    /\ Get(arg, "imageUrl") =
          Obj([url |-> Null, src |-> Str(<<"c">>), caption |-> Null, alt |-> Str(<<"T">>)])
    /\ out = Arr(<<ImageOf(Str(<<"c">>), Str(<<"T">>))>>)

\* C12: for a sequence, getImages keeps the order and only discards: the
\* output is the items mapped to {src, caption} in their order, without
\* exactly the items that are neither text nor a structured entry and the
\* structured entries whose source is empty; it is never longer than the
\* input and repeats or reorders nothing
C12_OrderPreservingDiscard ==
    (op = "getImages" /\ Returned /\ RawImages(arg).t = "array") =>
        LET items == RawImages(arg).a
            Source(e) ==
                IF Get(e, "url") \notin {Null, Undef} THEN Get(e, "url")
                ELSE IF Get(e, "src") \notin {Null, Undef} THEN Get(e, "src")
                ELSE IF Get(e, "downloadURL") \notin {Null, Undef} THEN Get(e, "downloadURL")
                ELSE Str(<<>>)
            Discarded(e) ==
                \/ e.t \notin {"string", "object", "array"}
                \/ e.t \in {"object", "array"} /\ Source(e) = Str(<<>>)
            kept == {i \in 1..Len(items) : ~Discarded(items[i])}
            \* the input position of the k-th output entry
            From(k) == CHOOSE i \in kept : Cardinality({j \in kept : j < i}) = k - 1
        IN  /\ Len(out.a) = Cardinality(kept)
            /\ Len(out.a) <= Len(items)
            /\ \A k \in 1..Len(out.a) :
                  /\ out.a[k].f.src = (IF items[From(k)].t = "string" THEN items[From(k)]
                                       ELSE Source(items[From(k)]))
                  /\ DOMAIN out.a[k].f = {"src", "caption"}

\* C12 witness: of three items the middle one, a structured entry without
\* a source, was discarded and the other two were kept in their order
C12_Witness ==
    /\ op = "getImages" /\ Returned
    /\ Get(arg, "photos") =
          Arr(<<Obj([url |-> Str(<<"b">>), caption |-> Str(<<"S">>)]),
                Obj([caption |-> Str(<<"S">>)]),
                Str(<<"a">>)>>)
    /\ out = Arr(<<ImageOf(Str(<<"b">>), Str(<<"S">>)), ImageOf(Str(<<"a">>), Str(<<>>))>>)

\* C22: every entry of the sequence getImages returns has a non-empty src,
\* whichever shape the image field has (sequence of text or structured
\* entries, single text, single structured entry), so the first entry of a
\* non-empty list is a usable thumbnail source
C22_EveryEntryHasSource ==
    (op = "getImages" /\ Returned) =>
        \A i \in 1..Len(out.a) :
            /\ Get(out.a[i], "src") \notin {Undef, Null}
            /\ Get(out.a[i], "src") # Str(<<>>)

(* ------------- specification: every helper on every input ------------ *)
InitHelpers ==
    \/ InitToLatLng
    \/ InitNormalizeColor
    \/ InitIconForMemory
    \/ InitGetTextFields
    \/ InitGetImages

NextHelpers ==
    \/ CallToLatLng
    \/ CallNormalizeColor
    \/ CallIconForMemory
    \/ CallGetTextFields
    \/ CallGetImages

SpecHelpers == InitHelpers /\ [][NextHelpers]_vars

\* C19: each helper returns a value of its result type on every input, and
\* an input that resolves to nothing gives the sentinel: null for a
\* position, the empty text for a description, the empty list for images,
\* null for a colour text, the default colour for a marker
C19_TotalWithSentinels ==
    Returned =>
        CASE op = "toLatLng" ->
                /\ \/ out = Null
                   \/ out.t = "array" /\ Len(out.a) = 2 /\ IsNumber(out.a[1]) /\ IsNumber(out.a[2])
                /\ (arg.t # "object" \/ DOMAIN arg.f = {}) => out = Null
          [] op = "getTextFields" ->
                /\ out.t = "object" /\ DOMAIN out.f = {"title", "description"}
                /\ (\A n \in {"description", "desc", "Details", "text", "Description"} :
                       Get(arg, n) \in {Null, Undef}) => out.f.description = Str(<<>>)
          [] op = "getImages" ->
                /\ out.t = "array"
                /\ \A i \in 1..Len(out.a) :
                      out.a[i].t = "object" /\ DOMAIN out.a[i].f = {"src", "caption"}
                /\ (\A i \in 1..Len(ImageFields) : Get(arg, ImageFields[i]) \in {Null, Undef})
                      => out = Arr(<<>>)
          [] op = "normalizeColor" ->
                /\ out = Null \/ out.t = "string"
                /\ arg.t # "string" => out = Null
          [] op = "iconForMemory" ->
                /\ out.t = "string"
                /\ (/\ \A n \in {"color", "pinColor", "colour"} :
                          normalizeColor(Get(arg, n)) = Null
                    /\ \/ Get(arg, "category") \in {Null, Undef}
                       \/ /\ Get(arg, "category").t = "string"
                          /\ \A n \in DOMAIN CategoryKeys :
                                CategoryKeys[n] # toLowerCase(trim(Get(arg, "category").s)))
                      => out = Str(<<"#", "3", "b", "8", "2", "f", "6">>)

(* ------------------- the App component: snapshot and render ----------- *)
\* makePinIcon(color): a new icon object; serial stands for its identity
makePinIcon(color, serial) == [t |-> "icon", fill |-> color, serial |-> serial]

\* iconFromColor that builds an icon on every call
iconFromColor_Rebuild(cache, color) ==
    [k \in DOMAIN cache \cup {color} |->
        IF k = color THEN makePinIcon(color, Cardinality(DOMAIN cache) + 1) ELSE cache[k]]

\* iconFromColor(color): the cache after the call
iconFromColor(cache, color) ==
    IF color \in DOMAIN cache THEN cache
    ELSE cache @@ (color :> makePinIcon(color, Cardinality(DOMAIN cache) + 1))

\* memory.coordinates ?? memory.Coordinates ?? memory.location ?? memory.position
coordFieldOf(memory) ==
    Coalesce(<<Get(memory, "coordinates"), Get(memory, "Coordinates"),
               Get(memory, "location"), Get(memory, "position")>>)

\* the Marker element of a placed record
MarkerOf(memory, pos, icon) ==
    [key |-> Get(memory, "id"), position |-> pos, icon |-> icon,
     title |-> getTextFields(memory).f.title,
     description |-> getTextFields(memory).f.description]

\* memories.map(...) giving up at the first record without a position
RECURSIVE RenderMarkers_StopAtUnplaced(_, _)
RenderMarkers_StopAtUnplaced(list, cache) ==
    IF list = <<>> THEN [markers |-> <<>>, cache |-> cache]
    ELSE LET memory == Head(list)
             pos == toLatLng(coordFieldOf(memory))
         IN  IF ~Truthy(pos) THEN [markers |-> <<>>, cache |-> cache]
             ELSE LET color == iconForMemory(memory)
                      cache2 == iconFromColor(cache, color)
                      rest == RenderMarkers_StopAtUnplaced(Tail(list), cache2)
                  IN  [markers |-> <<MarkerOf(memory, pos, cache2[color])>> \o rest.markers,
                       cache |-> rest.cache]

\* memories.map((memory) => ...): the Marker elements in record order (the
\* null entries of unplaced records left out) and the icon cache afterwards
RECURSIVE RenderMarkers(_, _)
RenderMarkers(list, cache) ==
    IF list = <<>> THEN [markers |-> <<>>, cache |-> cache]
    ELSE LET memory == Head(list)
             pos == toLatLng(coordFieldOf(memory))
         IN  IF ~Truthy(pos) THEN RenderMarkers(Tail(list), cache)
             ELSE LET color == iconForMemory(memory)
                      cache2 == iconFromColor(cache, color)
                      rest == RenderMarkers(Tail(list), cache2)
                  IN  [markers |-> <<MarkerOf(memory, pos, cache2[color])>> \o rest.markers,
                       cache |-> rest.cache]

\* { id: d.id, ...d.data() }: the data's own fields over the store id
SnapshotRecord(id, data) ==
    Obj([n \in {"id"} \cup DOMAIN data |-> IF n \in DOMAIN data THEN data[n] ELSE id])

\* the documents the collection can hold, by store id
SampleDocs ==
    <<  \* a GeoPoint under coordinates, styled by category
        [coordinates |-> Obj([latitude |-> Fin(10, 0), longitude |-> Fin(11, 0)]),
         title |-> Str(<<"a">>), category |-> Str(<<" ", "W", "o", "r", "k", " ">>)],
        \* no coordinate field at all
        [title |-> Str(<<"b">>), color |-> Str(<<"#", "f", "f", "0", "0", "0", "0">>)],
        \* text lat/lon under location
        [location |-> Obj([lat |-> Str(<<"4", "8", ".", "8">>),
                           lon |-> Str(<<"2", ".", "3">>)]),
         name |-> Str(<<"c">>), color |-> Str(<<"#", "f", "f", "0", "0", "0", "0">>)],
        \* null coordinates, numeric lat/lng under position
        [coordinates |-> Null,
         position |-> Obj([lat |-> Fin(20, 0), lng |-> Fin(21, 0)]),
         colour |-> Str(<<" ", "#", "0", "F", "0">>)],
        \* a coordinate map whose values do not parse
        [Coordinates |-> Obj([latitude |-> Str(<<"a", "b", "c">>),
                              longitude |-> Fin(11, 0)]),
         title |-> Str(<<"e">>)],
        \* coordinates that are text, not a map; a field named id in the data
        [coordinates |-> Str(<<"4", "8", ".", "8">>), position |-> Null,
         id |-> Str(<<"x">>)]  >>

DocIds == 1..Len(SampleDocs)

\* the store id of document i
DocId(i) == Str(<<"m", CHOOSE c \in Digits : DigitVal(c) = i>>)

\* the snapshots the subscription can deliver: up to MaxDocs documents
SnapshotLists ==
    {l \in UNION {[1..n -> DocIds] : n \in 0..MaxDocs} :
        \A i, j \in 1..Len(l) : i # j => l[i] # l[j]}

Init ==
    /\ op = "app"
    /\ arg = Undef
    /\ out = Pending
    /\ AppIdle

\* the documents of the sample list l, each under its store id
SampleList(l) == [i \in 1..Len(l) |-> [id |-> DocId(l[i]), data |-> SampleDocs[l[i]]]]

\* the parts of the model in which the App component runs
AppOps == {"app", "add", "edit", "delete"}

\* onSnapshot success callback on the documents docs:
\* setMemories(list); setLoading(false)
Snapshot(docs) ==
    /\ op \in AppOps
    /\ memories' = [i \in 1..Len(docs) |-> SnapshotRecord(docs[i].id, docs[i].data)]
    /\ loading' = FALSE
    /\ dirty' = TRUE
    /\ UNCHANGED <<op, arg, out, out2, markers, colorIconCache>>
    /\ UNCHANGED <<user, commentVars, blobs, created, addVars, editVars, logVars>>

\* other writers changed the collection and the subscription delivers it
CollectionChanged ==
    \E l \in SnapshotLists :
        /\ store' = SampleList(l)
        /\ Snapshot(store')

\* onSnapshot error callback: setLoading(false)
SnapshotError ==
    /\ op \in AppOps
    /\ loading' = FALSE
    /\ dirty' = TRUE
    /\ UNCHANGED <<op, arg, out, out2, memories, markers, colorIconCache>>
    /\ UNCHANGED <<user, commentVars, storeVars, addVars, editVars, logVars>>

\* one run of the App function after a state change
Render ==
    /\ op \in AppOps
    /\ dirty
    /\ dirty' = FALSE
    /\ IF loading
       THEN markers' = <<>> /\ UNCHANGED colorIconCache
       ELSE /\ markers' = RenderMarkers(memories, colorIconCache).markers
            /\ colorIconCache' = RenderMarkers(memories, colorIconCache).cache
    /\ UNCHANGED <<op, arg, out, out2, memories, loading>>
    /\ UNCHANGED <<user, commentVars, storeVars, addVars, editVars, logVars>>

Next == CollectionChanged \/ SnapshotError \/ Render

Spec == Init /\ [][Next]_vars

\* C6: after every render, a marker is drawn for a record exactly when
\* toLatLng of the first non-null of its coordinates, Coordinates,
\* location, position is non-null; the markers are those records in
\* snapshot order, so an unplaced record hides no other record
C6_MarkerIffPosition ==
    (op = "app" /\ ~dirty /\ ~loading) =>
        LET CoordField(m) ==
                LET names == <<"coordinates", "Coordinates", "location", "position">>
                    here == {i \in 1..4 : Get(m, names[i]) \notin {Null, Undef}}
                IN  IF here = {} THEN Undef
                    ELSE Get(m, names[CHOOSE i \in here : \A j \in here : i <= j])
            Placed(m) == toLatLng(CoordField(m)) # Null
            placedIds == SelectSeq([i \in 1..Len(memories) |->
                                      IF Placed(memories[i]) THEN Get(memories[i], "id")
                                      ELSE Null],
                                   LAMBDA x : x # Null)
        IN  /\ \A i \in 1..Len(memories) :
                  (\E k \in 1..Len(markers) : markers[k].key = Get(memories[i], "id"))
                      <=> Placed(memories[i])
            /\ [k \in 1..Len(markers) |-> markers[k].key] = placedIds
            /\ \A k \in 1..Len(markers) :
                  \E i \in 1..Len(memories) :
                      /\ markers[k].key = Get(memories[i], "id")
                      /\ markers[k].position = toLatLng(CoordField(memories[i]))

\* C6 witness: a snapshot whose first record has no resolvable coordinate
\* and whose second record has one was rendered as the second record alone
C6_Witness ==
    /\ op = "app" /\ ~dirty /\ ~loading
    /\ Len(memories) = 2
    /\ toLatLng(coordFieldOf(memories[1])) = Null
    /\ toLatLng(coordFieldOf(memories[2])) # Null
    /\ Len(markers) = 1
    /\ markers[1].key = Get(memories[2], "id")

\* C18: the icon cache only grows: a colour once requested keeps its key
\* and its icon for good, every key has one icon of its own, built once
\* (the icons built are as many as the keys), and every marker of a colour
\* carries the icon the cache holds for that colour
C18_CacheGrowsOncePerKey ==
    [][/\ \A k \in DOMAIN colorIconCache :
             k \in DOMAIN colorIconCache' /\ colorIconCache'[k] = colorIconCache[k]
       /\ \A k \in DOMAIN colorIconCache' : colorIconCache'[k].fill = k
       /\ {colorIconCache'[k].serial : k \in DOMAIN colorIconCache'} =
             1..Cardinality(DOMAIN colorIconCache')
       /\ \A i \in 1..Len(markers') :
             /\ markers'[i].icon.fill \in DOMAIN colorIconCache'
             /\ markers'[i].icon = colorIconCache'[markers'[i].icon.fill]]_vars

\* C18 witness: with two colours in the cache, the marker drawn last
\* carries the icon that was built first
C18_Witness ==
    /\ op = "app" /\ ~dirty
    /\ Cardinality(DOMAIN colorIconCache) = 2
    /\ Len(markers) = 1
    /\ markers[1].icon.serial = 1

\* C15: the records the client holds are exactly the documents of the most
\* recent snapshot, in its order, each with its store id and its data,
\* whatever earlier snapshots held
C15_HoldsLatestSnapshot ==
    (op = "app" /\ ~loading) =>
        /\ Len(memories) = Len(store)
        /\ \A i \in 1..Len(store) :
              /\ Get(memories[i], "id") = store[i].id
              /\ DOMAIN memories[i].f = DOMAIN store[i].data \cup {"id"}
              /\ \A n \in DOMAIN store[i].data \ {"id"} :
                    memories[i].f[n] = store[i].data[n]

(* ---------- specification: a record resolved twice by the render ------ *)
\* the record resolved with an icon made on the spot, not the cached one
Resolve_FreshIcon(memory, cache) ==
    LET color == iconForMemory(memory)
        cache2 == iconFromColor(cache, color)
    IN  [position |-> toLatLng(coordFieldOf(memory)),
         text |-> getTextFields(memory),
         images |-> getImages(memory),
         icon |-> makePinIcon(color, Cardinality(DOMAIN cache) + 1),
         cache |-> cache2]

\* what the map callback of the render computes for one record, and the
\* icon cache after it
Resolve(memory, cache) ==
    LET color == iconForMemory(memory)
        cache2 == iconFromColor(cache, color)
    IN  [position |-> toLatLng(coordFieldOf(memory)),
         text |-> getTextFields(memory),
         images |-> getImages(memory),
         icon |-> cache2[color],
         cache |-> cache2]

\* the outputs of Resolve without the cache
Outputs(r) == [position |-> r.position, text |-> r.text, images |-> r.images,
               icon |-> r.icon]

InitResolve ==
    /\ op = "resolve"
    /\ \E i \in DocIds : arg = SnapshotRecord(DocId(i), SampleDocs[i])
    /\ out = Pending
    /\ AppIdle

\* the first resolution of the record
ResolveFirst ==
    /\ op = "resolve"
    /\ out = Pending
    /\ out' = Outputs(Resolve(arg, colorIconCache))
    /\ colorIconCache' = Resolve(arg, colorIconCache).cache
    /\ UNCHANGED <<op, arg, out2, memories, loading, dirty, markers>>
    /\ UNCHANGED <<user, commentVars, storeVars, addVars, editVars, logVars>>

\* another record is resolved, before or after the first resolution
ResolveOther(i) ==
    /\ op = "resolve"
    /\ out2 = Pending
    /\ colorIconCache' = Resolve(SnapshotRecord(DocId(i), SampleDocs[i]), colorIconCache).cache
    /\ colorIconCache' # colorIconCache
    /\ UNCHANGED <<op, arg, out, out2, memories, loading, dirty, markers>>
    /\ UNCHANGED <<user, commentVars, storeVars, addVars, editVars, logVars>>

\* the second resolution of the same record
ResolveSecond ==
    /\ op = "resolve"
    /\ out # Pending
    /\ out2 = Pending
    /\ out2' = Outputs(Resolve(arg, colorIconCache))
    /\ colorIconCache' = Resolve(arg, colorIconCache).cache
    /\ UNCHANGED <<op, arg, out, memories, loading, dirty, markers>>
    /\ UNCHANGED <<user, commentVars, storeVars, addVars, editVars, logVars>>

NextResolve ==
    \/ ResolveFirst
    \/ \E i \in DocIds : ResolveOther(i)
    \/ ResolveSecond

SpecResolve == InitResolve /\ [][NextResolve]_vars

\* C20: a record resolved twice gives the same position, texts, images
\* and the very same icon both times, whatever records were resolved
\* before and between and whatever the icon cache held
C20_SameOutputTwice ==
    (op = "resolve" /\ out2 # Pending) => out2 = out

\* C20 witness: the record was resolved twice, its icon was the second one
\* built, and a third colour was cached between the two resolutions
C20_Witness ==
    /\ op = "resolve"
    /\ out2 # Pending
    /\ out.icon.serial = 2
    /\ Cardinality(DOMAIN colorIconCache) = 3

(* --------------------- CommentsSection and sign-in -------------------- *)
OWNER_UID ==
    Str(<<"G", "D", "v", "R", "v", "v", "0", "T", "k", "x", "R", "2", "S", "5", "u", "W", "B", "d", "e", "b", "A", "L", "u", "N", "f", "b", "w", "2">>)

\* the uids that can sign in
Users == {OWNER_UID, Str(<<"u", "1">>), Str(<<"u", "2">>)}

\* String.prototype.slice(0, n)
slice(s, n) == SubSeq(s, 1, IF Len(s) < n THEN Len(s) ELSE n)

\* the store id of the k-th comment created
CommentId(k) == Str(<<"c", CHOOSE c \in Digits : DigitVal(c) = k>>)

\* snap.docs.map((d) => ({ id: d.id, ...d.data() }))
CommentRecords(docs) == [i \in 1..Len(docs) |-> SnapshotRecord(docs[i].id, docs[i].data)]

\* a Delete button for every signed-in user
canDelete_SignedIn(u, c) == Truthy(u)

\* user && (user.uid === ownerUid || (c.authorUid && c.authorUid === user.uid))
canDelete(u, c) ==
    /\ Truthy(u)
    /\ \/ Get(u, "uid") = OWNER_UID
       \/ Truthy(Get(c, "authorUid")) /\ Get(c, "authorUid") = Get(u, "uid")

InitComments ==
    /\ op = "comments"
    /\ arg = Undef
    /\ out = Pending
    /\ AppIdle

\* onAuthStateChanged(auth, setUser): a sign-in or a sign-out took effect
AuthStateChanged(u) ==
    /\ op = "comments"
    /\ u # user
    /\ user' = u
    /\ dirty' = TRUE
    /\ UNCHANGED <<op, arg, out, out2, memories, loading, markers, colorIconCache>>
    /\ UNCHANGED <<commentVars, storeVars, addVars, editVars, logVars>>

\* addComment that stores the trimmed text at its full length
addComment_Uncut(author, text, ok) ==
    /\ op = "comments"
    /\ ~dirty
    /\ created < MaxComments
    /\ UNCHANGED answered
    /\ IF trim(text) = <<>>
       THEN UNCHANGED <<dirty, commentStore, created, lastCall, alerted>>
       ELSE LET id == CommentId(created + 1)
                data == [author |-> OrChain(<<Str(slice(trim(author), 60)),
                                              Str(<<"A", "n", "o", "n", "y", "m", "o", "u", "s">>)>>),
                         text |-> Str(trim(text)),
                         authorUid |-> OrChain(<<Get(user, "uid"), Null>>),
                         createdAt |-> Fin(created + 1, 0)]
            IN  /\ dirty' = TRUE
                /\ lastCall' = [fn |-> "addDoc", id |-> id, ok |-> ok]
                /\ IF ok
                   THEN /\ commentStore' = Append(commentStore, [id |-> id, data |-> data])
                        /\ created' = created + 1
                        /\ UNCHANGED alerted
                   ELSE /\ alerted' = "Failed to post comment"
                        /\ UNCHANGED <<commentStore, created>>
    /\ UNCHANGED <<op, arg, out, out2, memories, loading, markers, colorIconCache>>
    /\ UNCHANGED <<user, comments, commentButtons, store, blobs, addVars, editVars>>

\* submit of the comment form with the typed author and text; ok tells
\* whether the store accepted the write
addComment(author, text, ok) ==
    /\ op = "comments"
    /\ ~dirty
    /\ created < MaxComments
    /\ UNCHANGED answered
    /\ IF trim(text) = <<>>
       THEN UNCHANGED <<dirty, commentStore, created, lastCall, alerted>>
       ELSE LET id == CommentId(created + 1)
                data == [author |-> OrChain(<<Str(slice(trim(author), 60)),
                                              Str(<<"A", "n", "o", "n", "y", "m", "o", "u", "s">>)>>),
                         text |-> Str(slice(trim(text), 1000)),
                         authorUid |-> OrChain(<<Get(user, "uid"), Null>>),
                         createdAt |-> Fin(created + 1, 0)]
            IN  /\ dirty' = TRUE
                /\ lastCall' = [fn |-> "addDoc", id |-> id, ok |-> ok]
                /\ IF ok
                   THEN /\ commentStore' = Append(commentStore, [id |-> id, data |-> data])
                        /\ created' = created + 1
                        /\ UNCHANGED alerted
                   ELSE /\ alerted' = "Failed to post comment"
                        /\ UNCHANGED <<commentStore, created>>
    /\ UNCHANGED <<op, arg, out, out2, memories, loading, markers, colorIconCache>>
    /\ UNCHANGED <<user, comments, commentButtons, store, blobs, addVars, editVars>>

\* the onSnapshot callback of the comments query: setComments(...)
CommentsSnapshot ==
    /\ op = "comments"
    /\ comments # CommentRecords(commentStore)
    /\ comments' = CommentRecords(commentStore)
    /\ dirty' = TRUE
    /\ UNCHANGED <<op, arg, out, out2, memories, loading, markers, colorIconCache>>
    /\ UNCHANGED <<user, commentStore, commentButtons, storeVars, addVars, editVars, logVars>>

\* one run of the CommentsSection function: the Delete buttons it draws
RenderComments ==
    /\ op = "comments"
    /\ dirty
    /\ dirty' = FALSE
    /\ commentButtons' = {Get(comments[i], "id") : i \in {j \in 1..Len(comments) :
                                                          canDelete(user, comments[j])}}
    /\ UNCHANGED <<op, arg, out, out2, memories, loading, markers, colorIconCache>>
    /\ UNCHANGED <<user, commentStore, comments, storeVars, addVars, editVars, logVars>>

\* a click on the Delete button of comment id, the answer to the
\* confirmation dialog, and whether the store accepted the delete.  The
\* click lands on the committed view: React renders a pending state change
\* before the next click is handled
deleteComment(id, confirmed, ok) ==
    /\ op = "comments"
    /\ ~dirty
    /\ id \in commentButtons
    /\ IF ~Truthy(user)
       THEN /\ alerted' = "Sign in to delete comments."
            /\ UNCHANGED <<commentStore, lastCall, answered>>
       ELSE IF ~confirmed
       THEN /\ answered' = "no"
            /\ UNCHANGED <<commentStore, lastCall, alerted>>
       ELSE /\ answered' = "yes"
            /\ lastCall' = [fn |-> "deleteDoc", id |-> id, ok |-> ok]
            /\ IF ok
               THEN /\ commentStore' = SelectSeq(commentStore, LAMBDA d : d.id # id)
                    /\ UNCHANGED alerted
               ELSE /\ alerted' = "Delete failed (check rules or sign-in)."
                    /\ UNCHANGED commentStore
    /\ UNCHANGED <<op, arg, out, out2, viewVars>>
    /\ UNCHANGED <<user, comments, commentButtons, storeVars, addVars, editVars>>

NextComments ==
    \/ \E u \in {Null} \cup {Obj([uid |-> x]) : x \in Users} : AuthStateChanged(u)
    \/ \E author \in {<<>>, <<"A", "l">>}, text \in {<<" ">>, <<"h", "i", " ">>}, ok \in BOOLEAN :
          addComment(author, text, ok)
    \/ CommentsSnapshot
    \/ RenderComments
    \/ \E k \in 1..MaxComments, confirmed \in BOOLEAN, ok \in BOOLEAN :
          deleteComment(CommentId(k), confirmed, ok)

SpecComments == InitComments /\ [][NextComments]_vars

\* C13: a delete of comment c is issued only when a user is signed in and
\* either is the owner or c has a non-null authorUid equal to the user's
\* uid: with no user no delete is issued, and a comment without authorUid
\* is deleted by the owner alone
C13_DeleteByAuthorOrOwner ==
    [][\A i \in 1..Len(commentStore) :
          LET c == commentStore[i]
              removed == \A j \in 1..Len(commentStore') : commentStore'[j].id # c.id
              requested == /\ lastCall' # lastCall
                           /\ lastCall'.fn = "deleteDoc"
                           /\ lastCall'.id = c.id
          IN  (removed \/ requested) =>
                 /\ user # Null
                 /\ \/ user.f.uid = OWNER_UID
                    \/ c.data.authorUid # Null /\ c.data.authorUid = user.f.uid]_vars

\* C13 witness: a signed-in user who is not the owner deleted the comment
\* they wrote
C13_Witness ==
    /\ op = "comments"
    /\ lastCall = [fn |-> "deleteDoc", id |-> CommentId(1), ok |-> TRUE]
    /\ user = Obj([uid |-> Str(<<"u", "1">>)])
    /\ commentStore = <<>>
    /\ \E i \in 1..Len(comments) :
          Get(comments[i], "id") = CommentId(1)
          /\ Get(comments[i], "authorUid") = Str(<<"u", "1">>)

(* ------------- specification: comments posted at any length ---------- *)
\* what the author and text fields of the comment form hold at a submit:
\* a blank text, a blank name with a short text, and a name and a text
\* longer than the lengths addComment keeps
CommentInputs ==
    {[author |-> <<"A", "l">>, text |-> <<" ">>],
     [author |-> <<>>, text |-> <<"h", "i", " ">>],
     [author |-> [i \in 1..61 |-> IF i = 60 THEN " " ELSE "n"],
      text |-> [i \in 1..1001 |-> "x"]]}

\* the comment thread of one record: a visitor signs in and out, posts
\* and deletes
NextPost ==
    \/ \E u \in {Null, Obj([uid |-> Str(<<"u", "1">>)])} : AuthStateChanged(u)
    \/ \E form \in CommentInputs, ok \in BOOLEAN : addComment(form.author, form.text, ok)
    \/ CommentsSnapshot
    \/ RenderComments
    \/ \E k \in 1..MaxComments, confirmed \in BOOLEAN, ok \in BOOLEAN :
          deleteComment(CommentId(k), confirmed, ok)

SpecPost == InitComments /\ [][NextPost]_vars

\* C30: comments are append-only except for deletion: addComment writes
\* nothing when the text is empty or white space only; every comment it
\* writes has a non-empty text that is the trimmed input cut to at most
\* 1000 characters, a non-empty author of at most 60 characters
\* ("Anonymous" when the name is blank) and as authorUid the uid of the
\* user signed in at posting time, or null when signed out; and no step of
\* the client modifies an existing comment
C30_AppendOnly ==
    /\ [](op = "comments" =>
            \A form \in CommentInputs :
               LET name == trim(form.author)
                   body == trim(form.text)
                   Prefix(p, t) == Len(p) <= Len(t) /\ p = SubSeq(t, 1, Len(p))
                   Written(c) ==
                       /\ DOMAIN c = {"author", "text", "authorUid", "createdAt"}
                       /\ IsString(c.text) /\ c.text.s # <<>> /\ Len(c.text.s) <= 1000
                       /\ Prefix(c.text.s, body)
                       /\ Len(body) <= 1000 => c.text.s = body
                       /\ IsString(c.author) /\ c.author.s # <<>> /\ Len(c.author.s) <= 60
                       /\ IF name = <<>>
                          THEN c.author.s = <<"A", "n", "o", "n", "y", "m", "o", "u", "s">>
                          ELSE Prefix(c.author.s, name)
                                 /\ (Len(name) <= 60 => c.author.s = name)
                       /\ c.authorUid = (IF user = Null THEN Null ELSE user.f.uid)
               IN  \A ok \in BOOLEAN :
                      /\ body = <<>> =>
                            ~ENABLED (addComment(form.author, form.text, ok)
                                        /\ (commentStore' # commentStore \/ lastCall' # lastCall))
                      /\ ~ENABLED (/\ addComment(form.author, form.text, ok)
                                   /\ commentStore' # commentStore
                                   /\ \/ Len(commentStore') # Len(commentStore) + 1
                                      \/ ~Written(commentStore'[Len(commentStore')].data)))
    /\ [][\A i \in 1..Len(commentStore) :
             \A j \in 1..Len(commentStore') :
                commentStore'[j].id = commentStore[i].id => commentStore'[j] = commentStore[i]]_vars

\* C30 witness: signed in as u1, a name and a text longer than the kept
\* lengths were posted and stored cut to 60 and 1000 characters
C30_Witness ==
    /\ op = "comments"
    /\ user = Obj([uid |-> Str(<<"u", "1">>)])
    /\ lastCall = [fn |-> "addDoc", id |-> CommentId(1), ok |-> TRUE]
    /\ Len(commentStore) = 1
    /\ Len(commentStore[1].data.text.s) = 1000
    /\ Len(commentStore[1].data.author.s) = 60
    /\ commentStore[1].data.authorUid = Str(<<"u", "1">>)

(* ------------------ the store calls: Number and GeoPoint -------------- *)
\* Number(v): text is trimmed, the empty text is 0, and text that is not
\* as a whole a decimal literal is NaN
Number(v) ==
    CASE v.t = "number" -> v
      [] v.t = "null" -> Fin(0, 0)
      [] v.t = "boolean" -> IF v.b THEN Fin(1, 0) ELSE Fin(0, 0)
      [] v.t = "string" ->
            LET s == trim(v.s)
                signed == s # <<>> /\ Head(s) \in {"+", "-"}
                s2 == IF signed THEN Tail(s) ELSE s
                ni == DigitRun(s2)
                r1 == SubSeq(s2, ni + 1, Len(s2))
                dot == r1 # <<>> /\ Head(r1) = "."
                nf == IF dot THEN DigitRun(Tail(r1)) ELSE 0
                used == ni + (IF dot THEN 1 + nf ELSE 0)
            IN  IF s = <<>> THEN Fin(0, 0)
                ELSE IF s2 = InfinityText THEN StrToNumber(s)
                ELSE IF used = Len(s2) /\ (ni > 0 \/ nf > 0) THEN StrToNumber(s)
                ELSE NaN
      [] OTHER -> NaN

\* what a call that throws leaves in place of its value
Thrown == [t |-> "thrown"]

\* 10^e
RECURSIVE Pow10(_)
Pow10(e) == IF e = 0 THEN 1 ELSE 10 * Pow10(e - 1)

\* -limit <= v <= limit, for a finite number v
Within(v, limit) == v.m <= limit * Pow10(v.e) /\ 0 - v.m <= limit * Pow10(v.e)

\* new GeoPoint(latitude, longitude): the constructor of the store's SDK
\* throws unless the latitude is a finite number in [-90, 90] and the
\* longitude one in [-180, 180]
GeoPoint(latitude, longitude) ==
    IF /\ IsFinite(latitude) /\ Within(latitude, 90)
       /\ IsFinite(longitude) /\ Within(longitude, 180)
    THEN Obj([latitude |-> latitude, longitude |-> longitude])
    ELSE Thrown

\* the download URL of the k-th object this client created
BlobUrl(k) == Str(<<"b", CHOOSE c \in Digits : DigitVal(c) = k>>)

\* the store id of the k-th object this client created
NewDocId(k) == Str(<<"n", CHOOSE c \in Digits : DigitVal(c) = k>>)

\* some store document holds the URL b in imageUrl
Referenced(b, docs) ==
    \E i \in 1..Len(docs) : "imageUrl" \in DOMAIN docs[i].data /\ docs[i].data.imageUrl = b

DefaultColor == Str(<<"#", "3", "b", "8", "2", "f", "6">>)

(* ---------------------- addMemory and AddMemoryForm ------------------- *)
\* the document with latitude and longitude in the other order
AddDocData_LngLat(a, imageUrl, k) ==
    LET point == GeoPoint(Number(a.lng), Number(a.lat))
    IN  IF point = Thrown THEN Thrown
        ELSE [title |-> a.title,
              description |-> Coalesce(<<a.description, Str(<<>>)>>),
              coordinates |-> point,
              imageUrl |-> OrChain(<<imageUrl, Null>>),
              category |-> Str(trim(OrChain(<<a.category, Str(<<>>)>>).s)),
              color |-> OrChain(<<normalizeColor(a.color), Null>>),
              date |-> OrChain(<<a.date, Null>>),
              createdAt |-> Fin(k, 0)]

\* the document addMemory hands to addDoc, or Thrown when GeoPoint throws;
\* k stands for the server timestamp
AddDocData(a, imageUrl, k) ==
    LET point == GeoPoint(Number(a.lat), Number(a.lng))
    IN  IF point = Thrown THEN Thrown
        ELSE [title |-> a.title,
              description |-> Coalesce(<<a.description, Str(<<>>)>>),
              coordinates |-> point,
              imageUrl |-> OrChain(<<imageUrl, Null>>),
              category |-> Str(trim(OrChain(<<a.category, Str(<<>>)>>).s)),
              color |-> OrChain(<<normalizeColor(a.color), Null>>),
              date |-> OrChain(<<a.date, Null>>),
              createdAt |-> Fin(k, 0)]

\* the useState initial values of AddMemoryForm
AddFormInitial ==
    [title |-> Str(<<>>), description |-> Str(<<>>), lat |-> Str(<<>>),
     lng |-> Str(<<>>), file |-> Null, category |-> Str(<<>>),
     color |-> DefaultColor, date |-> Str(<<>>), saving |-> FALSE]

\* the file the user can pick
PickedFile == Obj([name |-> Str(<<"p">>)])

\* the starting collections of the store
InitialStores == {<<>>, SampleList(<<1>>)}

InitAdd ==
    /\ op = "add"
    /\ arg = Undef
    /\ out = Pending
    /\ out2 = Pending
    /\ memories = <<>> /\ loading = TRUE /\ dirty = FALSE
    /\ markers = <<>> /\ colorIconCache = <<>>
    /\ user = Null
    /\ commentStore = <<>> /\ comments = <<>> /\ commentButtons = {}
    /\ store \in InitialStores
    /\ blobs = {} /\ created = 0
    /\ showForm = FALSE /\ addForm = Null /\ addCall = Null
    /\ editingMemory = Null /\ editForm = Null /\ editCall = Null
    /\ lastCall = Null /\ alerted = "" /\ answered = ""

\* the subscription delivers the collection as it stands
Delivered ==
    /\ op \in {"add", "edit", "delete"}
    /\ loading \/ memories # [i \in 1..Len(store) |->
                                SnapshotRecord(store[i].id, store[i].data)]
    /\ Snapshot(store)
    /\ UNCHANGED store

\* a click on the floating button: setShowForm((s) => !s)
ToggleForm ==
    /\ op = "add"
    /\ ~dirty /\ ~loading
    /\ addCall = Null
    /\ showForm' = ~showForm
    /\ addForm' = IF showForm THEN Null ELSE AddFormInitial
    /\ dirty' = TRUE
    /\ UNCHANGED <<op, arg, out, out2, memories, loading, markers, colorIconCache>>
    /\ UNCHANGED <<user, commentVars, storeVars, addCall, editVars, logVars>>

\* the user fills in the fields of the add form
TypeAddForm(lat, file, category, color) ==
    /\ op = "add"
    /\ ~dirty /\ showForm
    /\ addCall = Null
    /\ addForm' = [addForm EXCEPT !.title = Str(<<"t">>), !.lat = lat,
                                  !.lng = Str(<<"2", "0">>), !.file = file,
                                  !.category = category, !.color = color]
    /\ addForm' # addForm
    /\ UNCHANGED <<op, arg, out, out2, viewVars>>
    /\ UNCHANGED <<user, commentVars, storeVars, showForm, addCall, editVars, logVars>>

\* addMemory after its upload with a submit that has no finally block
AddMemoryWrite_NoFinally(a, imageUrl) ==
    LET data == AddDocData(a, imageUrl, created' + 1)
    IN  IF data = Thrown
        THEN /\ alerted' = "Failed to add marker"
             /\ addCall' = Null
             /\ addForm' = [addForm EXCEPT !.saving = TRUE]
        ELSE /\ addCall' = [pc |-> "write", args |-> a, imageUrl |-> imageUrl, data |-> data]
             /\ addForm' = [addForm EXCEPT !.saving = TRUE]
             /\ UNCHANGED alerted

\* addMemory after its upload, if any: the document is built and addDoc is
\* awaited, or GeoPoint throws and submit reports the failure
AddMemoryWrite(a, imageUrl) ==
    LET data == AddDocData(a, imageUrl, created' + 1)
    IN  IF data = Thrown
        THEN /\ alerted' = "Failed to add marker"
             /\ addCall' = Null
             /\ addForm' = [addForm EXCEPT !.saving = FALSE]
        ELSE /\ addCall' = [pc |-> "write", args |-> a, imageUrl |-> imageUrl, data |-> data]
             /\ addForm' = [addForm EXCEPT !.saving = TRUE]
             /\ UNCHANGED alerted

\* submit of the add form, up to the first await of addMemory
SubmitAdd ==
    /\ op = "add"
    /\ ~dirty /\ showForm
    /\ ~addForm.saving
    /\ created < MaxCreated
    \* the inputs marked required are filled in
    /\ addForm.title # Str(<<>>) /\ addForm.lat # Str(<<>>) /\ addForm.lng # Str(<<>>)
    /\ IF ~IsFinite(Number(addForm.lat)) \/ ~IsFinite(Number(addForm.lng))
       THEN /\ alerted' = "Please enter valid numeric latitude and longitude."
            /\ UNCHANGED <<addForm, addCall, created>>
       ELSE IF Truthy(addForm.file)
       THEN /\ addCall' = [pc |-> "upload", args |-> addForm, imageUrl |-> Str(<<>>),
                           data |-> Null]
            /\ addForm' = [addForm EXCEPT !.saving = TRUE]
            /\ UNCHANGED <<alerted, created>>
       ELSE /\ UNCHANGED created
            /\ AddMemoryWrite(addForm, Str(<<>>))
    /\ UNCHANGED <<op, arg, out, out2, viewVars>>
    /\ UNCHANGED <<user, commentVars, store, blobs, showForm, editVars, lastCall, answered>>

\* uploadBytes and getDownloadURL of addMemory end: stored with a URL,
\* stored but the URL request failed, or not stored
AddUploadDone(outcome) ==
    /\ op = "add"
    /\ addCall # Null /\ addCall.pc = "upload"
    /\ lastCall' = [fn |-> "uploadBytes", id |-> BlobUrl(created + 1),
                    ok |-> outcome = "stored"]
    /\ IF outcome = "stored"
       THEN /\ blobs' = blobs \cup {BlobUrl(created + 1)}
            /\ created' = created + 1
            /\ AddMemoryWrite(addCall.args, BlobUrl(created + 1))
       ELSE /\ blobs' = IF outcome = "noUrl" THEN blobs \cup {BlobUrl(created + 1)} ELSE blobs
            /\ created' = IF outcome = "noUrl" THEN created + 1 ELSE created
            /\ alerted' = "Failed to add marker"
            /\ addCall' = Null
            /\ addForm' = [addForm EXCEPT !.saving = FALSE]
    /\ UNCHANGED <<op, arg, out, out2, viewVars>>
    /\ UNCHANGED <<user, commentVars, store, showForm, editVars, answered>>

\* addDoc of addMemory ends: on success the form is reset and closed
AddWriteDone(ok) ==
    /\ op = "add"
    /\ addCall # Null /\ addCall.pc = "write"
    /\ lastCall' = [fn |-> "addDoc", id |-> NewDocId(created + 1), ok |-> ok]
    /\ addCall' = Null
    /\ IF ok
       THEN /\ store' = Append(store, [id |-> NewDocId(created + 1), data |-> addCall.data])
            /\ created' = created + 1
            /\ showForm' = FALSE
            /\ addForm' = Null
            /\ dirty' = TRUE
            /\ UNCHANGED alerted
       ELSE /\ alerted' = "Failed to add marker"
            /\ addForm' = [addForm EXCEPT !.saving = FALSE]
            /\ UNCHANGED <<store, created, showForm, dirty>>
    /\ UNCHANGED <<op, arg, out, out2, memories, loading, markers, colorIconCache>>
    /\ UNCHANGED <<user, commentVars, blobs, editVars, answered>>

NextAdd ==
    \/ Delivered
    \/ Render
    \/ ToggleForm
    \/ \E lat \in {Str(<<"1", "0">>), Str(<<"9", "5">>), Str(<<"x">>), Str(<<" ">>)},
          file \in {Null, PickedFile},
          look \in {<<Str(<<>>), DefaultColor>>,
                    <<Str(<<" ", "W", "o", "r", "k">>), Str(<<"#", "F", "F", "0", "0", "0", "0">>)>>} :
          TypeAddForm(lat, file, look[1], look[2])
    \/ SubmitAdd
    \/ \E outcome \in {"stored", "noUrl", "failed"} : AddUploadDone(outcome)
    \/ \E ok \in BOOLEAN : AddWriteDone(ok)

SpecAdd == InitAdd /\ [][NextAdd]_vars

\* C14: a failed addMemory leaves the store as it was: no new or changed
\* record, and no blob uploaded by the failed call that no record
\* references
C14_FailureLeavesNoTrace ==
    [][(alerted' = "Failed to add marker" /\ (addCall' # addCall \/ alerted' # alerted)) =>
          /\ store' = store
          /\ \A b \in blobs' :
                \/ Referenced(b, store')
                \/ b \in blobs /\ (addCall = Null \/ b # addCall.imageUrl)]_vars

\* C27: while the add form holds a latitude or longitude text that is not
\* a finite number (blank and white-space-only text included), a submit
\* starts no upload and no create call and changes neither the store nor
\* the blobs; what it does is show the validation alert, with the form
\* open, its values unchanged and saving = false
C27_NonNumericRejected ==
    [][LET \* blank, white space only, or not a decimal literal
           NotNumeric(v) == trim(v.s) = <<>> \/ ~IsFinite(StrToNumber(trim(v.s)))
                                             \/ Number(v) = NaN
       IN  (addForm # Null /\ addCall = Null
              /\ (NotNumeric(addForm.lat) \/ NotNumeric(addForm.lng))) =>
              /\ addCall' = Null
              /\ UNCHANGED <<store, blobs, created>>
              /\ alerted' # alerted =>
                    /\ alerted' = "Please enter valid numeric latitude and longitude."
                    /\ showForm' /\ addForm' = addForm /\ ~addForm'.saving]_vars

RECURSIVE NatToDigits(_)
NatToDigits(n) ==
    LET last == CHOOSE c \in Digits : DigitVal(c) = n % 10
    IN  IF n < 10 THEN <<last>> ELSE NatToDigits(n \div 10) \o <<last>>

\* String(v) of a number: sign, integer digits and, if any, the point and
\* the fraction digits
String(v) ==
    CASE v.k = "nan" -> <<"N", "a", "N">>
      [] v.k = "inf" -> InfinityText
      [] v.k = "ninf" -> <<"-">> \o InfinityText
      [] OTHER ->
            LET mag == IF v.m < 0 THEN 0 - v.m ELSE v.m
                sign == IF v.m < 0 THEN <<"-">> ELSE <<>>
                frac == NatToDigits(mag % Pow10(v.e))
                zeros == [i \in 1..(v.e - Len(frac)) |-> "0"]
            IN  IF v.e = 0 THEN sign \o NatToDigits(mag)
                ELSE sign \o NatToDigits(mag \div Pow10(v.e)) \o <<".">> \o zeros \o frac

\* the useState initial values of EditMemoryForm for the record memory
EditFormInitial(memory) ==
    LET pos == toLatLng(Coalesce(<<Get(memory, "coordinates"), Get(memory, "location"),
                                   Get(memory, "position")>>))
    IN  [title |-> OrChain(<<Get(memory, "title"), Str(<<>>)>>),
         description |-> OrChain(<<Get(memory, "description"), Str(<<>>)>>),
         date |-> OrChain(<<Get(memory, "date"), Str(<<>>)>>),
         lat |-> IF Truthy(pos) THEN Str(String(pos.a[1])) ELSE Str(<<>>),
         lng |-> IF Truthy(pos) THEN Str(String(pos.a[2])) ELSE Str(<<>>),
         category |-> OrChain(<<Get(memory, "category"), Str(<<>>)>>),
         color |-> OrChain(<<Get(memory, "color"), DefaultColor>>),
         file |-> Null, removeImage |-> FALSE, saving |-> FALSE]

\* the payload updateMemory builds first, or Thrown when GeoPoint throws
UpdatePayload(f) ==
    LET point == GeoPoint(Number(f.lat), Number(f.lng))
    IN  IF point = Thrown THEN Thrown
        ELSE [title |-> f.title,
              description |-> Coalesce(<<f.description, Str(<<>>)>>),
              coordinates |-> point,
              category |-> Str(trim(OrChain(<<f.category, Str(<<>>)>>).s)),
              color |-> OrChain(<<normalizeColor(f.color), Null>>),
              date |-> OrChain(<<f.date, Null>>)]

\* payload.imageUrl = url
WithImageUrl(payload, url) ==
    [n \in DOMAIN payload \cup {"imageUrl"} |-> IF n = "imageUrl" THEN url ELSE payload[n]]

\* the document replaced by the payload, as setDoc without merge does
UpdateDoc_Replace(docs, id, payload) ==
    [i \in 1..Len(docs) |->
        IF docs[i].id # id THEN docs[i] ELSE [id |-> id, data |-> payload]]

\* updateDoc(doc(db, "memories", id), payload): the fields of the payload
\* replace those of the document, the other fields stay
UpdateDoc(docs, id, payload) ==
    [i \in 1..Len(docs) |->
        IF docs[i].id # id THEN docs[i]
        ELSE [id |-> id,
              data |-> [n \in DOMAIN docs[i].data \cup DOMAIN payload |->
                          IF n \in DOMAIN payload THEN payload[n] ELSE docs[i].data[n]]]]

\* the starting collections of the store when records are edited
EditStores == {SampleList(<<1, 4>>)}

InitEdit ==
    /\ op = "edit"
    /\ arg = Undef
    /\ out = Pending
    /\ out2 = Pending
    /\ memories = <<>> /\ loading = TRUE /\ dirty = FALSE
    /\ markers = <<>> /\ colorIconCache = <<>>
    /\ user = Null
    /\ commentStore = <<>> /\ comments = <<>> /\ commentButtons = {}
    /\ store \in EditStores
    /\ blobs = {} /\ created = 0
    /\ showForm = FALSE /\ addForm = Null /\ addCall = Null
    /\ editingMemory = Null /\ editForm = Null /\ editCall = Null
    /\ lastCall = Null /\ alerted = "" /\ answered = ""

\* another writer changes the title of document i
OtherWriter(i) ==
    /\ op = "edit"
    /\ i \in 1..Len(store)
    /\ "title" \in DOMAIN store[i].data
    /\ store[i].data.title # Str(<<"z">>)
    /\ store' = [store EXCEPT ![i].data.title = Str(<<"z">>)]
    /\ UNCHANGED <<op, arg, out, out2, viewVars>>
    /\ UNCHANGED <<user, commentVars, blobs, created, addVars, editVars, logVars>>

\* a click on the Edit button in the popup of record i:
\* setEditingMemory(memory).  A form that is already open stays mounted
\* and keeps its state; only its memory prop changes
ClickEdit(i) ==
    /\ op = "edit"
    /\ ~dirty /\ ~loading
    /\ editCall = Null
    /\ i \in 1..Len(memories)
    /\ toLatLng(coordFieldOf(memories[i])) # Null
    /\ editingMemory' = memories[i]
    /\ editingMemory' # editingMemory
    /\ editForm' = IF editingMemory = Null THEN EditFormInitial(memories[i]) ELSE editForm
    /\ dirty' = TRUE
    /\ UNCHANGED <<op, arg, out, out2, memories, loading, markers, colorIconCache>>
    /\ UNCHANGED <<user, commentVars, storeVars, addVars, editCall, logVars>>

\* a click on the close button of the edit form: setEditingMemory(null)
CloseEdit ==
    /\ op = "edit"
    /\ ~dirty
    /\ editingMemory # Null
    /\ editCall = Null
    /\ editingMemory' = Null
    /\ editForm' = Null
    /\ dirty' = TRUE
    /\ UNCHANGED <<op, arg, out, out2, memories, loading, markers, colorIconCache>>
    /\ UNCHANGED <<user, commentVars, storeVars, addVars, editCall, logVars>>

\* the user changes fields of the edit form; the remove-image box is
\* drawn only when the record has an imageUrl
TypeEditForm(title, lat, file, removeImage) ==
    /\ op = "edit"
    /\ ~dirty
    /\ editingMemory # Null
    /\ editCall = Null
    /\ removeImage # editForm.removeImage => Truthy(Get(editingMemory, "imageUrl"))
    /\ editForm' = [editForm EXCEPT !.title = title, !.lat = lat, !.file = file,
                                    !.removeImage = removeImage]
    /\ editForm' # editForm
    /\ UNCHANGED <<op, arg, out, out2, viewVars>>
    /\ UNCHANGED <<user, commentVars, storeVars, addVars, editingMemory, editCall, logVars>>

\* submit of the edit form, up to the first await of updateMemory
SubmitEdit ==
    /\ op = "edit"
    /\ ~dirty
    /\ editingMemory # Null
    /\ ~editForm.saving
    /\ created < MaxCreated
    \* the inputs marked required are filled in
    /\ editForm.title # Str(<<>>) /\ editForm.lat # Str(<<>>) /\ editForm.lng # Str(<<>>)
    /\ IF ~IsFinite(Number(editForm.lat)) \/ ~IsFinite(Number(editForm.lng))
       THEN /\ alerted' = "Please enter valid numeric latitude and longitude."
            /\ UNCHANGED <<editForm, editCall>>
       ELSE LET payload == UpdatePayload(editForm)
                id == Get(editingMemory, "id")
            IN  IF payload = Thrown
                THEN /\ alerted' = "Failed to update marker"
                     /\ UNCHANGED <<editForm, editCall>>
                ELSE /\ editForm' = [editForm EXCEPT !.saving = TRUE]
                     /\ UNCHANGED alerted
                     /\ editCall' =
                          IF Truthy(editForm.file)
                          THEN [pc |-> "upload", id |-> id, payload |-> payload]
                          ELSE IF editForm.removeImage
                          THEN [pc |-> "write", id |-> id,
                                payload |-> WithImageUrl(payload, Null)]
                          ELSE [pc |-> "write", id |-> id, payload |-> payload]
    /\ UNCHANGED <<op, arg, out, out2, viewVars>>
    /\ UNCHANGED <<user, commentVars, storeVars, addVars, editingMemory, lastCall, answered>>

\* uploadBytes and getDownloadURL of updateMemory end
EditUploadDone(outcome) ==
    /\ op = "edit"
    /\ editCall # Null /\ editCall.pc = "upload"
    /\ blobs' = IF outcome = "failed" THEN blobs ELSE blobs \cup {BlobUrl(created + 1)}
    /\ created' = IF outcome = "failed" THEN created ELSE created + 1
    /\ IF outcome = "stored"
       THEN /\ editCall' = [pc |-> "write", id |-> editCall.id,
                            payload |-> WithImageUrl(editCall.payload, BlobUrl(created + 1))]
            /\ UNCHANGED <<alerted, editForm>>
       ELSE /\ alerted' = "Failed to update marker"
            /\ editCall' = Null
            /\ editForm' = [editForm EXCEPT !.saving = FALSE]
    /\ UNCHANGED <<op, arg, out, out2, viewVars>>
    /\ UNCHANGED <<user, commentVars, store, addVars, editingMemory, lastCall, answered>>

\* updateDoc of updateMemory ends; it is rejected when the document is gone
EditWriteDone(ok) ==
    /\ op = "edit"
    /\ editCall # Null /\ editCall.pc = "write"
    /\ ok => \E i \in 1..Len(store) : store[i].id = editCall.id
    /\ editCall' = Null
    /\ IF ok
       THEN /\ store' = UpdateDoc(store, editCall.id, editCall.payload)
            /\ created' = created + 1
            /\ editingMemory' = Null
            /\ editForm' = Null
            /\ dirty' = TRUE
            /\ UNCHANGED alerted
       ELSE /\ alerted' = "Failed to update marker"
            /\ editForm' = [editForm EXCEPT !.saving = FALSE]
            /\ UNCHANGED <<store, created, editingMemory, dirty>>
    /\ UNCHANGED <<op, arg, out, out2, memories, loading, markers, colorIconCache>>
    /\ UNCHANGED <<user, commentVars, blobs, addVars, lastCall, answered>>

NextEdit ==
    \/ Delivered
    \/ Render
    \/ OtherWriter(1)
    \/ \E i \in 1..MaxDocs : ClickEdit(i)
    \/ CloseEdit
    \/ \E title \in {Str(<<"t", "2">>)}, lat \in {Str(<<"1", "2">>), Str(<<"9", "5">>)},
          file \in {Null, PickedFile}, removeImage \in BOOLEAN :
          TypeEditForm(title, lat, file, removeImage)
    \/ SubmitEdit
    \/ \E outcome \in {"stored", "noUrl", "failed"} : EditUploadDone(outcome)
    \/ \E ok \in BOOLEAN : EditWriteDone(ok)

SpecEdit == InitEdit /\ [][NextEdit]_vars

\* C16: the edit form holds no copy of its own: the record it shows and
\* will write back is the record of that id as the most recent snapshot
\* has it, so a snapshot that changes or removes the record shows in the
\* open form
C16_FormShowsLatestSnapshot ==
    (op = "edit" /\ editingMemory # Null /\ ~dirty /\ editCall = Null) =>
        \E i \in 1..Len(memories) :
            /\ Get(memories[i], "id") = Get(editingMemory, "id")
            /\ memories[i] = editingMemory

(* ------------- specification: edits of one record of each shape ------- *)
\* records as earlier versions of the client and other writers stored them:
\* the position under each of the four field names, the colour given by
\* the category, by color or by pinColor, the image under imageUrl alone or
\* next to another image field
EditRecords ==
    <<  \* written by addMemory with a file, styled by its category
        [coordinates |-> Obj([latitude |-> Fin(10, 0), longitude |-> Fin(11, 0)]),
         title |-> Str(<<"a">>), category |-> Str(<<" ", "H", "o", "l", "i", "d", "a", "y">>),
         imageUrl |-> Str(<<"u">>), createdAt |-> Fin(0, 0)],
        \* the position under Coordinates
        [Coordinates |-> Obj([latitude |-> Fin(20, 0), longitude |-> Fin(21, 0)]),
         title |-> Str(<<"b">>), color |-> Str(<<"#", "f", "f", "0", "0", "0", "0">>)],
        \* text lat/lon under location, the colour under pinColor, the image
        \* both in the images list and under imageUrl
        [location |-> Obj([lat |-> Str(<<"4", "8", ".", "8">>),
                           lon |-> Str(<<"2", ".", "3">>)]),
         title |-> Str(<<"c">>), pinColor |-> Str(<<"#", "f", "f", "0", "0", "0", "0">>),
         images |-> Arr(<<Str(<<"u">>)>>), imageUrl |-> Str(<<"u">>)],
        \* null coordinates and the position under position, an image under
        \* imageUrl and another under Image
        [coordinates |-> Null,
         position |-> Obj([lat |-> Fin(20, 0), lng |-> Fin(21, 0)]),
         title |-> Str(<<"d">>), color |-> Str(<<"#", "f", "f", "0", "0", "0", "0">>),
         imageUrl |-> Str(<<"u">>), Image |-> Str(<<"v">>)]  >>

\* the starting collections: one of the records, under the store id m1
EditRecordStores == {<<[id |-> DocId(1), data |-> EditRecords[i]]>> : i \in 1..Len(EditRecords)}

InitEditRecord ==
    /\ op = "edit"
    /\ arg = Undef
    /\ out = Pending
    /\ out2 = Pending
    /\ memories = <<>> /\ loading = TRUE /\ dirty = FALSE
    /\ markers = <<>> /\ colorIconCache = <<>>
    /\ user = Null
    /\ commentStore = <<>> /\ comments = <<>> /\ commentButtons = {}
    /\ store \in EditRecordStores
    /\ blobs = {} /\ created = 0
    /\ showForm = FALSE /\ addForm = Null /\ addCall = Null
    /\ editingMemory = Null /\ editForm = Null /\ editCall = Null
    /\ lastCall = Null /\ alerted = "" /\ answered = ""

SpecEditRecord == InitEditRecord /\ [][NextEdit]_vars

\* the store document with id id, as the snapshot callback builds its record
StoredRecord(docs, id) ==
    LET i == CHOOSE j \in 1..Len(docs) : docs[j].id = id
    IN  SnapshotRecord(docs[i].id, docs[i].data)

\* the step in which updateDoc of an edit is accepted by the store
EditSaved == editCall # Null /\ editCall.pc = "write" /\ editCall' = Null /\ store' # store

\* C23: an edit saved with the colour the form started with leaves the
\* marker colour of the record as it was: iconForMemory of the record after
\* updateMemory equals iconForMemory of the record before it, also for a
\* record without explicit colour that is styled by its category
C23_UntouchedColourKept ==
    [][(EditSaved /\ editForm.color = EditFormInitial(editingMemory).color) =>
          iconForMemory(StoredRecord(store', editCall.id))
              = iconForMemory(StoredRecord(store, editCall.id))]_vars

\* C24: the edit form opened from the popup of a placed record starts with
\* the latitude and longitude at which the record is placed, whichever of
\* coordinates, Coordinates, location, position holds them, so that saving
\* without changes writes the same position back
C24_FormStartsAtMarker ==
    [][(editingMemory = Null /\ editingMemory' # Null) =>
          LET pos == toLatLng(coordFieldOf(editingMemory'))
          IN  /\ editForm'.lat = Str(String(pos.a[1]))
              /\ editForm'.lng = Str(String(pos.a[2]))
              /\ GeoPoint(Number(editForm'.lat), Number(editForm'.lng))
                    = Obj([latitude |-> pos.a[1], longitude |-> pos.a[2]])]_vars

\* the fields updateMemory puts into every payload
PayloadFields == {"title", "description", "coordinates", "category", "color", "date"}

\* C25: updateMemory changes the stored image only as requested: with a new
\* file the stored imageUrl becomes the URL of the new upload, also when
\* removeImage is set; without a file and with removeImage it becomes null;
\* with neither the payload has no imageUrl and the stored imageUrl stays
\* as it was.  Fields outside the payload (createdAt, the other image
\* fields) and the comments are not written
C25_ImageChangedAsRequested ==
    [][EditSaved =>
          LET before == CHOOSE d \in {store[i] : i \in 1..Len(store)} : d.id = editCall.id
              after == CHOOSE d \in {store'[i] : i \in 1..Len(store')} : d.id = editCall.id
              payload == editCall.payload
          IN  /\ IF Truthy(editForm.file)
                 THEN /\ payload.imageUrl = BlobUrl(created)
                      /\ BlobUrl(created) \in blobs
                      /\ after.data.imageUrl = BlobUrl(created)
                 ELSE IF editForm.removeImage
                 THEN payload.imageUrl = Null /\ after.data.imageUrl = Null
                 ELSE /\ "imageUrl" \notin DOMAIN payload
                      /\ "imageUrl" \in DOMAIN after.data <=> "imageUrl" \in DOMAIN before.data
                      /\ "imageUrl" \in DOMAIN before.data =>
                            after.data.imageUrl = before.data.imageUrl
              /\ DOMAIN payload \subseteq PayloadFields \cup {"imageUrl"}
              /\ DOMAIN after.data = DOMAIN before.data \cup DOMAIN payload
              /\ \A n \in DOMAIN before.data \ DOMAIN payload : after.data[n] = before.data[n]
              /\ Len(store') = Len(store)
              /\ \A i \in 1..Len(store) : store[i].id # editCall.id => store'[i] = store[i]
              /\ UNCHANGED <<commentStore, blobs>>]_vars

\* C25 witness: the record that had images ["u"] and imageUrl "u" was saved
\* with a new file: imageUrl is the new upload and the images list is as
\* it was
C25_Witness ==
    /\ op = "edit"
    /\ editCall = Null
    /\ Len(store) = 1
    /\ "images" \in DOMAIN store[1].data
    /\ store[1].data.images = Arr(<<Str(<<"u">>)>>)
    /\ store[1].data.imageUrl = BlobUrl(1)
    /\ blobs = {BlobUrl(1)}

\* the image the edit form shows as the existing one
existingImageUrl(memory) == OrChain(<<Get(memory, "imageUrl"), Null>>)

\* C26: for a record whose displayed image is the one the edit form showed
\* as existing, an edit saved with the remove box checked and no file
\* leaves the record without an image (getImages of it is empty), and an
\* edit saved with a replacement file makes the new upload the first image
\* displayed, whichever image fields the record has
C26_DisplayFollowsEdit ==
    [][(/\ EditSaved
        /\ existingImageUrl(editingMemory) # Null
        /\ getImages(editingMemory).a # <<>>
        /\ Get(getImages(editingMemory).a[1], "src") = existingImageUrl(editingMemory)) =>
          LET images == getImages(StoredRecord(store', editCall.id)).a
          IN  IF Truthy(editForm.file)
              THEN images # <<>> /\ Get(images[1], "src") = BlobUrl(created)
              ELSE editForm.removeImage => images = <<>>]_vars

(* ---------------- specification: records written by the forms -------- *)
\* the add form on an empty or one-record collection, or the edit form on
\* one record of each shape
InitWrite == InitAdd \/ InitEditRecord

NextWrite == NextAdd \/ NextEdit

SpecWrite == InitWrite /\ [][NextWrite]_vars

\* the step in which addDoc of an add is accepted by the store
AddSaved == addCall # Null /\ addCall.pc = "write" /\ addCall' = Null /\ Len(store') > Len(store)

\* C29 as stated: a record written by addMemory or updateMemory with
\* validated lat, lng comes back placed at [Number(lat), Number(lng)], with
\* a color that is null or '#' + 6 hex digits, with the trimmed input as
\* category, and with an image list that is empty when no file was given
\* and the single uploaded URL with empty caption when one was
C29_AsStated ==
    [][(AddSaved \/ EditSaved) =>
          LET args == IF AddSaved THEN addCall.args ELSE editForm
              url == IF AddSaved THEN addCall.imageUrl ELSE BlobUrl(created)
              rec == IF AddSaved
                     THEN StoredRecord(store', store'[Len(store')].id)
                     ELSE StoredRecord(store', editCall.id)
          IN  /\ toLatLng(coordFieldOf(rec)) = LatLng(Number(args.lat), Number(args.lng))
              /\ \/ Get(rec, "color") = Null
                 \/ IsString(Get(rec, "color")) /\ TestHex(Get(rec, "color").s, 6)
              /\ Get(rec, "category") = Str(trim(args.category.s))
              /\ getImages(rec) = IF Truthy(args.file)
                                  THEN Arr(<<ImageOf(url, Str(<<>>))>>)
                                  ELSE Arr(<<>>)]_vars

\* C29: position, color and category come back as stated for records
\* written by addMemory and by updateMemory; the image list is as stated
\* for addMemory; after updateMemory the stored imageUrl is the uploaded
\* URL when a file was given, and the image list is that of the record
\* before the edit when neither a file nor the removal was given
C29_RoundTrip ==
    [][(AddSaved \/ EditSaved) =>
          LET args == IF AddSaved THEN addCall.args ELSE editForm
              url == IF AddSaved THEN addCall.imageUrl ELSE BlobUrl(created)
              rec == IF AddSaved
                     THEN StoredRecord(store', store'[Len(store')].id)
                     ELSE StoredRecord(store', editCall.id)
          IN  /\ toLatLng(coordFieldOf(rec)) = LatLng(Number(args.lat), Number(args.lng))
              /\ \/ Get(rec, "color") = Null
                 \/ IsString(Get(rec, "color")) /\ TestHex(Get(rec, "color").s, 6)
              /\ Get(rec, "category") = Str(trim(args.category.s))
              /\ IF AddSaved
                 THEN getImages(rec) = IF Truthy(args.file)
                                       THEN Arr(<<ImageOf(url, Str(<<>>))>>)
                                       ELSE Arr(<<>>)
                 ELSE IF Truthy(args.file) THEN Get(rec, "imageUrl") = url
                 ELSE ~args.removeImage =>
                         getImages(rec) = getImages(StoredRecord(store, editCall.id))]_vars

\* C29 witness: the record added with latitude "10", longitude "20",
\* category " Work", colour "#FF0000" and a file came back in the snapshot
\* and is drawn at [10, 20] with the uploaded image
C29_Witness ==
    /\ op = "add"
    /\ ~dirty
    /\ \E i \in 1..Len(memories) :
          /\ Get(memories[i], "id") = NewDocId(2)
          /\ Get(memories[i], "category") = Str(<<"W", "o", "r", "k">>)
          /\ Get(memories[i], "color") = Str(<<"#", "F", "F", "0", "0", "0", "0">>)
          /\ getImages(memories[i]) = Arr(<<ImageOf(BlobUrl(1), Str(<<>>))>>)
          /\ toLatLng(coordFieldOf(memories[i])) = LatLng(Fin(10, 0), Fin(20, 0))
    /\ \E k \in 1..Len(markers) : markers[k].key = NewDocId(2)

(* ------------------------------ handleDelete -------------------------- *)
InitDelete ==
    /\ op = "delete"
    /\ arg = Undef
    /\ out = Pending
    /\ out2 = Pending
    /\ memories = <<>> /\ loading = TRUE /\ dirty = FALSE
    /\ markers = <<>> /\ colorIconCache = <<>>
    /\ user = Null
    /\ commentStore = <<>> /\ comments = <<>> /\ commentButtons = {}
    \* a collection whose first record was given an uploaded image earlier
    /\ \E l \in SnapshotLists :
          /\ Len(l) >= 1
          /\ store = UpdateDoc(SampleList(l), DocId(l[1]), [imageUrl |-> BlobUrl(1)])
    /\ blobs = {BlobUrl(1)} /\ created = 1
    /\ showForm = FALSE /\ addForm = Null /\ addCall = Null
    /\ editingMemory = Null /\ editForm = Null /\ editCall = Null
    /\ lastCall = Null /\ alerted = "" /\ answered = ""

\* handleDelete that never asks
handleDelete_NoConfirm(k, confirmed, ok) ==
    /\ op = "delete"
    /\ ~dirty
    /\ k \in 1..Len(markers)
    /\ answered' = IF confirmed THEN "yes" ELSE "no"
    /\ lastCall' = [fn |-> "deleteDoc", id |-> markers[k].key, ok |-> ok]
    /\ IF ok
       THEN /\ store' = SelectSeq(store, LAMBDA d : d.id # markers[k].key)
            /\ UNCHANGED alerted
       ELSE /\ alerted' = "Failed to delete marker"
            /\ UNCHANGED store
    /\ UNCHANGED <<op, arg, out, out2, viewVars>>
    /\ UNCHANGED <<user, commentVars, blobs, created, addVars, editVars>>

\* a click on the Delete button in the popup of marker k, the answer to
\* window.confirm, and whether the store accepted the delete
handleDelete(k, confirmed, ok) ==
    /\ op = "delete"
    /\ ~dirty
    /\ k \in 1..Len(markers)
    /\ IF ~confirmed
       THEN /\ answered' = "no"
            /\ UNCHANGED <<store, lastCall, alerted>>
       ELSE /\ answered' = "yes"
            /\ lastCall' = [fn |-> "deleteDoc", id |-> markers[k].key, ok |-> ok]
            /\ IF ok
               THEN /\ store' = SelectSeq(store, LAMBDA d : d.id # markers[k].key)
                    /\ UNCHANGED alerted
               ELSE /\ alerted' = "Failed to delete marker"
                    /\ UNCHANGED store
    /\ UNCHANGED <<op, arg, out, out2, viewVars>>
    /\ UNCHANGED <<user, commentVars, blobs, created, addVars, editVars>>

NextDelete ==
    \/ Delivered
    \/ Render
    \/ \E k \in 1..MaxDocs, confirmed \in BOOLEAN, ok \in BOOLEAN :
          handleDelete(k, confirmed, ok)

SpecDelete == InitDelete /\ [][NextDelete]_vars

\* C17: a record leaves the store, and a delete is sent at all, only in a
\* step in which the confirmation dialog answered yes; when the dialog is
\* declined no store call is made and the client state stays as it was;
\* the delete removes the document alone and leaves the uploaded blobs
C17_DeleteOnlyConfirmed ==
    [][/\ \A i \in 1..Len(store) :
             (\A j \in 1..Len(store') : store'[j].id # store[i].id) =>
                 /\ answered' = "yes"
                 /\ lastCall' = [fn |-> "deleteDoc", id |-> store[i].id, ok |-> TRUE]
       /\ lastCall' # lastCall => answered' = "yes"
       /\ (answered' = "no" /\ answered # "no") =>
             UNCHANGED <<store, blobs, viewVars, addVars, editVars, lastCall, alerted>>
       /\ blobs' = blobs]_vars

\* C17 witness: after a confirmed delete the record that referenced the
\* uploaded image is gone from the store and the blob is still there
C17_Witness ==
    /\ op = "delete"
    /\ answered = "yes"
    /\ lastCall = [fn |-> "deleteDoc", id |-> DocId(1), ok |-> TRUE]
    /\ BlobUrl(1) \in blobs
    /\ ~Referenced(BlobUrl(1), store)
    /\ Len(store) = 1

====
